---- MODULE Spec2Model ----
(***************************************************************************)
(* single-whip: the WHIP signaling server (room/peer registry, signaling   *)
(* handler, relay engine).  Two builds of the server are in the            *)
(* repository, src/server/main.go and src/unnamed/part_001; they differ in *)
(* the forwarding loop only, and the variable `build` says which one runs. *)
(* The client programs (container codec, packetizer, listener) come in     *)
(* three builds: the two programs of src/client/main.go that start at its  *)
(* lines 155 and 765, and src/unnamed/part_003; `client` says which one.   *)
(***************************************************************************)
EXTENDS Integers, Sequences, FiniteSets, TLC

\* ------------------------------------------------------------------ bounds
MaxReq == 3
MaxPkts == 2
\* frames in a batch given to the container encoder
MaxFrames == 3
\* phrases of a speak job (the closing phrase comes on top)
MaxPhrases == 2
\* packets a listener receives
MaxHeard == 3
MaxRtcp == 2

\* ------------------------------------------------------------ value spaces
\* The specification of two paired rooms takes one request more than the
\* others.
MaxSessions == MaxReq + 1
Sessions == 1 .. MaxSessions
NoPeer == 0
NoRoom == 0
RoomIDs == {"r1", "r2"}
RoomParams == RoomIDs \cup {""}
Methods == {"OPTIONS", "POST"}
Builds == {"server", "part_001"}
Payloads == {<< >>, <<1>>}
StatusBadRequest == 400
StatusInternalServerError == 500
StatusCreated == 201
StatusOK == 200
SamplesPerFrame == 960

VARIABLES
    build,      \* which server build runs
    rooms,      \* roomManager.rooms: identifier -> Room object (NoRoom: absent)
    heap,       \* the Room objects allocated so far, by address 1..Len(heap)
    nreq,       \* requests received so far
    pc,         \* position of each request's whipHandler
    method,     \* req.Method
    reqRoom,    \* req.URL.Query().Get("room")
    status,     \* HTTP status written (0: none yet)
    resp,       \* the response's Location header and body ("": not written)
    room,       \* whipHandler's local `room` (address of a Room)
    otherPeer,  \* whipHandler's local `otherPeer`
    slot,       \* what addPeer did with the peer: "", "A", "B", "full"
    onTrack,    \* the session's OnTrack handler: destination peer it captured
    gathered,   \* the session's gathering-complete promise is resolved
    conn,       \* the session's PeerConnectionState
    pending,    \* state-change notifications not yet delivered to the handler
    desc,       \* the session's remote and local descriptions are set
    task,       \* the forwarding goroutine reading the session's remote track
    sent,       \* RTP packets the remote side has sent on the session's track
    rdIdx,      \* how many of them track.ReadRTP has returned
    sink,       \* packets WriteRTP has accepted on the session's AudioTrack
    held,       \* the mutexes locked: pairs <<goroutine, mutex>>
    drain       \* the session's RTCP-reading goroutines, on its sender and on
                \* its receiver: state, and packets read and discarded

VARIABLES
    client,         \* which client program runs
    \* container codec
    stage,          \* "idle", "frames", "container", "decoded"
    batch,          \* opusPackets given to createOggOpusFile
    oggData,        \* the container: its pages in order
    packets,        \* what extractOpusPacketsFromOgg returned
    decodeErr,      \* extractOpusPacketsFromOgg returned an error
    \* processSpeakRequest and sendAudioToTrack
    speak,          \* position of the speak job: "idle", "tts", "loop", "done",
                    \* "returned"
    phrase,         \* index of the phrase being sent (the closing phrase comes
                    \* after the phrases of the request)
    fragments,      \* sendAudioToTrack's opusPackets / fragments
    loopI,          \* its loop index `i`
    sequenceNumber, \* uint16
    timestamp,      \* uint32
    wire,           \* the packets track.WriteRTP accepted, over the whole job
    attempts,       \* the phrases textToSpeech was called for, in order
    peerConnection, \* the job's session: "none", "open", "closed"
    \* processListenRequest
    listen,         \* the listener's reading goroutine: "idle", "reading", "ended"
    opusPackets,    \* the accumulator
    handed,         \* the batches passed to createOggOpusFile, in order
    rawFiles,       \* the batches written to received_batch_N.bin
    heard           \* every packet ReadRTP returned, in order

regVars   == <<rooms, heap>>
reqVars   == <<nreq, pc, method, reqRoom, status, resp, room, otherPeer, slot>>
sessVars  == <<onTrack, gathered, conn, pending, desc>>
relayVars == <<task, sent, rdIdx, sink>>
serverVars == <<build, regVars, reqVars, sessVars, relayVars, held, drain>>
codecVars  == <<stage, batch, oggData, packets, decodeErr>>
speakVars  == <<speak, phrase, fragments, loopI, sequenceNumber, timestamp, wire,
                attempts, peerConnection>>
listenVars == <<listen, opusPackets, handed, rawFiles, heard>>
clientVars == <<client, codecVars, speakVars, listenVars>>
vars      == <<serverVars, clientVars>>

\* ------------------------------------------------------------- the registry
Room(id) == [ID |-> id, PeerA |-> NoPeer, PeerB |-> NoPeer]

\* getOrCreateRoom without the `exists` test: every call allocates.
getOrCreateRoomAlways(rms, hp, roomID) ==
    [rooms |-> [rms EXCEPT ![roomID] = Len(hp) + 1],
     heap  |-> Append(hp, Room(roomID)),
     ret   |-> Len(hp) + 1]

\* RoomManager.getOrCreateRoom, under rm.mutex: the map, the heap and the
\* Room returned.
getOrCreateRoom(rms, hp, roomID) ==
    IF rms[roomID] # NoRoom
    THEN [rooms |-> rms, heap |-> hp, ret |-> rms[roomID]]
    ELSE [rooms |-> [rms EXCEPT ![roomID] = Len(hp) + 1],
          heap  |-> Append(hp, Room(roomID)),
          ret   |-> Len(hp) + 1]

\* addPeer returning the waiting peer from a full room too.
addPeerRepair(r, peer) ==
    IF r.PeerA = NoPeer
    THEN [room |-> [r EXCEPT !.PeerA = peer], ret |-> NoPeer]
    ELSE IF r.PeerB = NoPeer
         THEN [room |-> [r EXCEPT !.PeerB = peer], ret |-> r.PeerA]
         ELSE [room |-> r, ret |-> r.PeerA]

\* addPeer without the `r.PeerB == nil` test: a full room's slot B is taken over.
addPeerEvict(r, peer) ==
    IF r.PeerA = NoPeer
    THEN [room |-> [r EXCEPT !.PeerA = peer], ret |-> NoPeer]
    ELSE [room |-> [r EXCEPT !.PeerB = peer],
          ret  |-> IF r.PeerB = NoPeer THEN r.PeerA ELSE NoPeer]

\* Room.addPeer, under r.mutex: the room afterwards and the peer returned.
addPeer(r, peer) ==
    IF r.PeerA = NoPeer
    THEN [room |-> [r EXCEPT !.PeerA = peer], ret |-> NoPeer]
    ELSE IF r.PeerB = NoPeer
         THEN [room |-> [r EXCEPT !.PeerB = peer], ret |-> r.PeerA]
         ELSE [room |-> r, ret |-> NoPeer]

\* removePeer without the `r.PeerB == peer` test.
removePeerElseB(r, peer) ==
    IF r.PeerA = peer
    THEN [r EXCEPT !.PeerA = NoPeer]
    ELSE [r EXCEPT !.PeerB = NoPeer]

\* Room.removePeer, under r.mutex.
removePeer(r, peer) ==
    IF r.PeerA = peer
    THEN [r EXCEPT !.PeerA = NoPeer]
    ELSE IF r.PeerB = peer
         THEN [r EXCEPT !.PeerB = NoPeer]
         ELSE r

\* connectPeers(source, destination): source's OnTrack handler is replaced by
\* one that captures `destination`.
connectPeers(h, source, destination) == [h EXCEPT ![source] = destination]

\* The callback testing PeerConnectionStateClosed only.
removesOnClosed(state) == state = "closed"

\* The OnConnectionStateChange callback's condition for removePeer.
removesOn(state) == state = "failed" \/ state = "closed"

\* ------------------------------------------------------------------ packets
\* The header extension a remote side puts on its packets (an audio level).
Extensions == <<"urn:ietf:params:rtp-hdrext:ssrc-audio-level">>
\* ext: Header.Extension; extensions: Header.Extensions.
Packet(src, seq, payload) ==
    [src |-> src, seq |-> seq, ts |-> SamplesPerFrame * (seq - 1),
     marker |-> FALSE, ext |-> TRUE, extensions |-> Extensions,
     payload |-> payload]

\* The header as outbound: Extensions = nil and Extension = false in
\* src/server/main.go, a new header without extensions in part_001.
stripExtensions(pkt) == [pkt EXCEPT !.ext = FALSE, !.extensions = << >>]

\* A forwarding loop that hands over the packet as it was read.
relayPacketKeepExtensions(b, pkt) ==
    IF b = "server"
    THEN [write |-> TRUE, pkt |-> pkt]
    ELSE IF Len(pkt.payload) = 0
         THEN [write |-> FALSE, pkt |-> pkt]
         ELSE [write |-> TRUE, pkt |-> pkt]

\* A forwarding loop that hands over the header without the payload.
relayPacketNoPayload(b, pkt) ==
    [write |-> TRUE, pkt |-> [stripExtensions(pkt) EXCEPT !.payload = << >>]]

\* One turn of the forwarding loop after a successful ReadRTP: whether the
\* packet is handed to WriteRTP, and the packet handed over.
relayPacket(b, pkt) ==
    IF b = "server"
    THEN [write |-> TRUE, pkt |-> stripExtensions(pkt)]
    ELSE IF Len(pkt.payload) = 0
         THEN [write |-> FALSE, pkt |-> pkt]
         ELSE [write |-> TRUE, pkt |-> stripExtensions(pkt)]

NoTask == [st |-> "none", dst |-> NoPeer]
\* The two RTCP-reading goroutines of a session, neither started.
Ends == {"sender", "receiver"}
NoDrains == [e \in Ends |-> [st |-> "none", n |-> 0]]

\* ---------------------------------------------------------------- responses
\* Nothing but the CORS headers: no Location header, an empty body.
NoResponse == [location |-> "", body |-> ""]
\* http.Error(res, text, code): the text is the body.
BodyOnly(text) == [location |-> "", body |-> text]
RoomRequired == "room parameter is required"
\* err.Error() of a pion call.
ErrorText == "error"
\* The path writeAnswer is called with.
WhipPath == "/whip"
\* peerConnection.LocalDescription().SDP: nothing before SetLocalDescription,
\* then the answer with the candidates gathered so far.
CompleteAnswer == "answer with all candidates"
PartialAnswer == "answer with the candidates gathered so far"
LocalDescriptionSDP(local, complete) ==
    IF ~local THEN "" ELSE IF complete THEN CompleteAnswer ELSE PartialAnswer

\* ---------------------------------------------------------------- the state
\* No client program is looked at.
CodecIdle ==
    /\ stage = "idle" /\ batch = << >> /\ oggData = << >>
    /\ packets = << >> /\ decodeErr = FALSE
SpeakIdle ==
    /\ speak = "idle" /\ phrase = 0 /\ fragments = << >> /\ loopI = 0
    /\ sequenceNumber = 0 /\ timestamp = 0 /\ wire = << >>
    /\ attempts = << >> /\ peerConnection = "none"
ListenIdle ==
    /\ listen = "idle" /\ opusPackets = << >> /\ handed = << >>
    /\ rawFiles = << >> /\ heard = << >>
ClientIdle == client = "" /\ CodecIdle /\ SpeakIdle /\ ListenIdle

\* The server after main's `roomManager = &RoomManager{...}`: no room, no
\* request received.
ServerInit(builds) ==
    /\ build \in builds
    /\ rooms = [id \in RoomIDs |-> NoRoom]
    /\ heap = << >>
    /\ nreq = 0
    /\ pc = [p \in Sessions |-> "idle"]
    /\ method = [p \in Sessions |-> ""]
    /\ reqRoom = [p \in Sessions |-> ""]
    /\ status = [p \in Sessions |-> 0]
    /\ resp = [p \in Sessions |-> NoResponse]
    /\ room = [p \in Sessions |-> NoRoom]
    /\ otherPeer = [p \in Sessions |-> NoPeer]
    /\ slot = [p \in Sessions |-> ""]
    /\ onTrack = [p \in Sessions |-> NoPeer]
    /\ gathered = [p \in Sessions |-> FALSE]
    /\ conn = [p \in Sessions |-> "new"]
    /\ pending = [p \in Sessions |-> {}]
    /\ desc = [p \in Sessions |-> [remote |-> FALSE, local |-> FALSE]]
    /\ task = [p \in Sessions |-> NoTask]
    /\ sent = [p \in Sessions |-> << >>]
    /\ rdIdx = [p \in Sessions |-> 0]
    /\ sink = [p \in Sessions |-> << >>]
    /\ held = {}
    /\ drain = [p \in Sessions |-> NoDrains]

InitWith(builds) == ServerInit(builds) /\ ClientIdle

\* src/server/main.go starts.
Init == InitWith({"server"})

\* Either build starts.
RelayInit == InitWith(Builds)

\* The remote side holds the answer (the 201 response carries the session's
\* ICE credentials and fingerprint): from here on its transports can come up,
\* fail or close, and media can arrive.
Negotiated(p) == status[p] = StatusCreated

InSlot(p) == \E i \in 1 .. Len(heap) : heap[i].PeerA = p \/ heap[i].PeerB = p

TotalSent == LET RECURSIVE sum(_)
                 sum(n) == IF n = 0 THEN 0 ELSE Len(sent[n]) + sum(n - 1)
             IN sum(MaxSessions)

\* ------------------------------------------------------ the signaling handler
\* whipHandler up to the construction of the Peer: the OPTIONS return, the
\* room parameter check, NewPeerConnection / NewTrackLocalStaticRTP / AddTrack.
\* The outcomes of whipHandler's first part: the status and body written and
\* where the handler goes on.
Returned(code, text) == [status |-> code, resp |-> BodyOnly(text), pc |-> "done"]
Constructed == [status |-> 0, resp |-> NoResponse, pc |-> "getroom"]

\* whipHandler without the `req.Method == http.MethodOptions` return.
whipHandlerNoPreflight(m, id, built) ==
    IF id = "" THEN Returned(StatusBadRequest, RoomRequired)
    ELSE IF ~built THEN Returned(StatusInternalServerError, ErrorText)
    ELSE Constructed

\* whipHandler without the `roomID == ""` return.
whipHandlerNoRoomCheck(m, id, built) ==
    IF m = "OPTIONS" THEN Returned(StatusOK, "")
    ELSE IF ~built THEN Returned(StatusInternalServerError, ErrorText)
    ELSE Constructed

\* whipHandler up to the construction of the Peer, for a request with method
\* m and room parameter id; built: the session and its track are constructed.
whipHandler(m, id, built) ==
    IF m = "OPTIONS" THEN Returned(StatusOK, "")
    ELSE IF id = "" THEN Returned(StatusBadRequest, RoomRequired)
    ELSE IF ~built THEN Returned(StatusInternalServerError, ErrorText)
    ELSE Constructed

ReceiveFrom(p, ms, ids, builts) ==
    /\ p = nreq + 1
    /\ pc[p] = "idle"
    /\ nreq' = p
    /\ \E m \in ms, id \in ids, built \in builts :
        /\ method' = [method EXCEPT ![p] = m]
        /\ reqRoom' = [reqRoom EXCEPT ![p] = id]
        /\ LET out == whipHandler(m, id, built) IN
            /\ status' = [status EXCEPT ![p] = out.status]
            /\ resp' = [resp EXCEPT ![p] = out.resp]
            /\ pc' = [pc EXCEPT ![p] = out.pc]
            /\ drain' = IF out = Constructed
                        THEN [drain EXCEPT ![p].sender.st = "running"]
                        ELSE drain
    /\ UNCHANGED <<clientVars, held, build, regVars, room, otherPeer, slot, sessVars, relayVars>>

\* The identifiers are opaque strings: the first one requested is named "r1".
SeenRoomParams ==
    IF \E q \in Sessions : reqRoom[q] = "r1" THEN RoomParams ELSE {"", "r1"}

\* A request with any method, room parameter and construction outcome.
Receive(p) == p <= MaxReq /\ ReceiveFrom(p, Methods, SeenRoomParams, BOOLEAN)

\* A POST for room "r1" whose session is constructed, arriving when no other
\* request is being handled.
ReceivePost(p) ==
    /\ p <= MaxReq
    /\ \A q \in Sessions : pc[q] \in {"idle", "done"}
    /\ ReceiveFrom(p, {"POST"}, {"r1"}, {TRUE})

\* room := roomManager.getOrCreateRoom(roomID)
GetOrCreateRoom(p) ==
    /\ pc[p] = "getroom"
    /\ LET got == getOrCreateRoom(rooms, heap, reqRoom[p]) IN
        /\ rooms' = got.rooms
        /\ heap' = got.heap
        /\ room' = [room EXCEPT ![p] = got.ret]
    /\ pc' = [pc EXCEPT ![p] = "addpeer"]
    /\ UNCHANGED <<clientVars, held, drain, build, nreq, method, reqRoom, status, resp, otherPeer, slot,
                   sessVars, relayVars>>

\* otherPeer := room.addPeer(peer)
\* A handler that calls addPeer for its peer again after its answer.
AddPeerAgain(p) ==
    /\ pc[p] \in {"addpeer", "done"}
    /\ room[p] # NoRoom
    /\ LET r   == heap[room[p]]
           got == addPeer(r, p) IN
        /\ heap' = [heap EXCEPT ![room[p]] = got.room]
        /\ otherPeer' = [otherPeer EXCEPT ![p] = got.ret]
        /\ slot' = [slot EXCEPT ![p] =
                      IF got.room.PeerA = p /\ r.PeerA # p THEN "A"
                      ELSE IF got.room.PeerB = p /\ r.PeerB # p THEN "B"
                      ELSE "full"]
        /\ pc' = [pc EXCEPT ![p] = IF pc[p] = "done" THEN "done"
                                   ELSE IF got.ret # NoPeer THEN "connect" ELSE "answer"]
    /\ UNCHANGED <<clientVars, held, drain, build, rooms, nreq, method, reqRoom, status, resp, room,
                   sessVars, relayVars>>

AddPeer(p) ==
    /\ pc[p] = "addpeer"
    /\ LET r   == heap[room[p]]
           got == addPeer(r, p) IN
        /\ heap' = [heap EXCEPT ![room[p]] = got.room]
        /\ otherPeer' = [otherPeer EXCEPT ![p] = got.ret]
        /\ slot' = [slot EXCEPT ![p] =
                      IF got.room.PeerA = p /\ r.PeerA # p THEN "A"
                      ELSE IF got.room.PeerB = p /\ r.PeerB # p THEN "B"
                      ELSE "full"]
        /\ pc' = [pc EXCEPT ![p] = IF got.ret # NoPeer THEN "connect" ELSE "answer"]
    /\ UNCHANGED <<clientVars, held, drain, build, rooms, nreq, method, reqRoom, status, resp, room,
                   sessVars, relayVars>>

\* connectPeers(peer, otherPeer); connectPeers(otherPeer, peer)
ConnectPeers(p) ==
    /\ pc[p] = "connect"
    /\ onTrack' = connectPeers(connectPeers(onTrack, p, otherPeer[p]),
                               otherPeer[p], p)
    /\ pc' = [pc EXCEPT ![p] = "answer"]
    /\ UNCHANGED <<clientVars, held, drain, build, regVars, nreq, method, reqRoom, status, resp, room,
                   otherPeer, slot, gathered, conn, pending, desc, relayVars>>

\* OnConnectionStateChange is registered, then writeAnswer up to
\* SetLocalDescription: each of SetRemoteDescription, CreateAnswer and
\* SetLocalDescription may fail, and the handler then answers 500 and returns.
\* `steps` are the outcomes the offer allows: the call that fails, or "ok".
WriteAnswerFrom(p, steps) ==
    /\ pc[p] = "answer"
    /\ \E step \in steps :
        /\ desc' = [desc EXCEPT ![p] =
                      [remote |-> step # "SetRemoteDescription", local |-> step = "ok"]]
        /\ IF step = "ok"
           THEN /\ pc' = [pc EXCEPT ![p] = "gather"]
                /\ UNCHANGED <<status, resp>>
           ELSE /\ pc' = [pc EXCEPT ![p] = "done"]
                /\ status' = [status EXCEPT ![p] = StatusInternalServerError]
                /\ resp' = [resp EXCEPT ![p] = BodyOnly(ErrorText)]
    /\ UNCHANGED <<clientVars, held, drain, build, regVars, nreq, method, reqRoom, room, otherPeer,
                   slot, onTrack, gathered, conn, pending, relayVars>>

\* Any offer.
WriteAnswer(p) ==
    WriteAnswerFrom(p, {"SetRemoteDescription", "CreateAnswer",
                        "SetLocalDescription", "ok"})

\* An offer the session accepts.
WriteAnswerOk(p) == WriteAnswerFrom(p, {"ok"})

\* The ICE agent finishes gathering: the GatheringCompletePromise resolves.
GatherComplete(p) ==
    /\ pc[p] = "gather"
    /\ ~gathered[p]
    /\ gathered' = [gathered EXCEPT ![p] = TRUE]
    /\ UNCHANGED <<clientVars, held, drain, build, regVars, reqVars, onTrack, conn, pending, desc, relayVars>>

\* writeAnswer's last part without the `<-gatherComplete` wait.
RespondEarly(p) ==
    /\ pc[p] = "gather"
    /\ status' = [status EXCEPT ![p] = StatusCreated]
    /\ resp' = [resp EXCEPT ![p] =
                  [location |-> WhipPath,
                   body |-> LocalDescriptionSDP(desc[p].local, gathered[p])]]
    /\ pc' = [pc EXCEPT ![p] = "done"]
    /\ UNCHANGED <<clientVars, held, drain, build, regVars, nreq, method, reqRoom, room, otherPeer,
                   slot, sessVars, relayVars>>

\* <-gatherComplete; the 201 response with the Location header and, as body,
\* the local description's SDP.
Respond(p) ==
    /\ pc[p] = "gather"
    /\ gathered[p]
    /\ status' = [status EXCEPT ![p] = StatusCreated]
    /\ resp' = [resp EXCEPT ![p] =
                  [location |-> WhipPath,
                   body |-> LocalDescriptionSDP(desc[p].local, gathered[p])]]
    /\ pc' = [pc EXCEPT ![p] = "done"]
    /\ UNCHANGED <<clientVars, held, drain, build, regVars, nreq, method, reqRoom, room, otherPeer,
                   slot, sessVars, relayVars>>

\* ----------------------------------------------------- the session's states
\* ICE and DTLS come up.  The state-change callback only prints for this state.
Connected(p) ==
    /\ Negotiated(p)
    /\ conn[p] = "new"
    /\ conn' = [conn EXCEPT ![p] = "connected"]
    /\ UNCHANGED <<clientVars, held, drain, build, regVars, reqVars, onTrack, gathered, pending, desc, relayVars>>

\* The session fails (PeerConnectionStateFailed); the callback is scheduled.
SessionFailed(p) ==
    /\ Negotiated(p)
    /\ conn[p] \in {"new", "connected"}
    /\ conn' = [conn EXCEPT ![p] = "failed"]
    /\ pending' = [pending EXCEPT ![p] = @ \cup {"failed"}]
    /\ UNCHANGED <<clientVars, held, drain, build, regVars, reqVars, onTrack, gathered, desc, relayVars>>

\* The session's ICE transport fails (the remote side is gone) and the
\* OnICEConnectionStateChange callback of writeAnswer closes the session:
\* peerConnection.Close(), the only way a session of the server gets Closed.
\* The state-change callback is scheduled.
SessionClosed(p) ==
    /\ Negotiated(p)
    /\ conn[p] # "closed"
    /\ conn' = [conn EXCEPT ![p] = "closed"]
    /\ pending' = [pending EXCEPT ![p] = @ \cup {"closed"}]
    /\ UNCHANGED <<clientVars, held, drain, build, regVars, reqVars, onTrack, gathered, desc, relayVars>>

\* The session's ICE transport fails: the session's state becomes Failed, and
\* both the state-change callback and the OnICEConnectionStateChange callback
\* of writeAnswer are scheduled.
ICEFailed(p) ==
    /\ Negotiated(p)
    /\ conn[p] \in {"new", "connected"}
    /\ conn' = [conn EXCEPT ![p] = "failed"]
    /\ pending' = [pending EXCEPT ![p] = @ \cup {"failed", "icefailed"}]
    /\ UNCHANGED <<clientVars, held, drain, build, regVars, reqVars, onTrack, gathered, desc, relayVars>>

\* An OnICEConnectionStateChange callback that only prints.
OnICEConnectionStateChangePrint(p) ==
    /\ "icefailed" \in pending[p]
    /\ pending' = [pending EXCEPT ![p] = @ \ {"icefailed"}]
    /\ UNCHANGED <<clientVars, held, drain, build, regVars, reqVars, onTrack, gathered, conn, desc, relayVars>>

\* The OnICEConnectionStateChange callback of writeAnswer runs for the state
\* Failed: peerConnection.Close(), which makes the session Closed and
\* schedules the state-change callback for that state.
OnICEConnectionStateChange(p) ==
    /\ "icefailed" \in pending[p]
    /\ conn' = [conn EXCEPT ![p] = "closed"]
    /\ pending' = [pending EXCEPT ![p] =
                     (@ \ {"icefailed"}) \cup (IF conn[p] = "closed" THEN {} ELSE {"closed"})]
    /\ UNCHANGED <<clientVars, held, drain, build, regVars, reqVars, onTrack, gathered, desc, relayVars>>

\* The OnConnectionStateChange callback of whipHandler runs for one state.
OnConnectionStateChange(p) ==
    /\ \E state \in pending[p] \ {"icefailed"} :
        /\ pending' = [pending EXCEPT ![p] = @ \ {state}]
        /\ heap' = IF removesOn(state)
                   THEN [heap EXCEPT ![room[p]] = removePeer(@, p)]
                   ELSE heap
    /\ UNCHANGED <<clientVars, held, drain, build, rooms, reqVars, onTrack, gathered, conn, desc, relayVars>>

\* ------------------------------------------------------------------ the relay
\* The remote side of session p sends one RTP packet on its audio track.
SendRTP(p) ==
    /\ Negotiated(p)
    /\ conn[p] = "connected"
    /\ TotalSent < MaxPkts
    /\ \E payload \in Payloads :
        sent' = [sent EXCEPT ![p] = Append(@, Packet(p, Len(@) + 1, payload))]
    /\ UNCHANGED <<clientVars, held, drain, build, regVars, reqVars, sessVars, task, rdIdx, sink>>

\* An OnTrack handler that runs again for a track whose forwarding goroutine
\* has returned.
OnTrackRestart(p) ==
    /\ task[p].st # "running"
    /\ sent[p] # << >>
    /\ conn[p] # "closed"
    /\ task' = [task EXCEPT ![p] =
                  IF onTrack[p] = NoPeer
                  THEN [st |-> "unhandled", dst |-> NoPeer]
                  ELSE [st |-> "running", dst |-> onTrack[p]]]
    /\ UNCHANGED <<clientVars, held, drain, build, regVars, reqVars, sessVars, sent, rdIdx, sink>>

\* An OnTrack handler that starts the forwarding goroutine only.
OnTrackNoDrain(p) ==
    /\ task[p].st = "none"
    /\ sent[p] # << >>
    /\ conn[p] # "closed"
    /\ task' = [task EXCEPT ![p] =
                  IF onTrack[p] = NoPeer
                  THEN [st |-> "unhandled", dst |-> NoPeer]
                  ELSE [st |-> "running", dst |-> onTrack[p]]]
    /\ UNCHANGED <<clientVars, held, drain, build, regVars, reqVars, sessVars, sent, rdIdx, sink>>

\* The session's remote track becomes available: the OnTrack handler set at
\* that moment runs and starts the forwarding goroutine towards the peer it
\* captured; with no handler set the event is dropped.
OnTrack(p) ==
    /\ task[p].st = "none"
    /\ sent[p] # << >>
    /\ conn[p] # "closed"
    /\ task' = [task EXCEPT ![p] =
                  IF onTrack[p] = NoPeer
                  THEN [st |-> "unhandled", dst |-> NoPeer]
                  ELSE [st |-> "running", dst |-> onTrack[p]]]
    /\ drain' = IF onTrack[p] = NoPeer
                THEN drain
                ELSE [drain EXCEPT ![p].receiver.st = "running"]
    /\ UNCHANGED <<clientVars, held, build, regVars, reqVars, sessVars, sent, rdIdx, sink>>

\* Packets the RTCP-reading goroutines have read and discarded, over all
\* sessions.
TotalDiscarded ==
    LET RECURSIVE sum(_)
        sum(k) == IF k = 0 THEN 0
                  ELSE drain[k].sender.n + drain[k].receiver.n + sum(k - 1)
    IN sum(MaxSessions)

\* One turn of an RTCP-reading loop: rtpSender.Read or receiver.ReadRTCP
\* returns a packet, which is dropped.
ReadRTCP(p, e) ==
    /\ drain[p][e].st = "running"
    /\ conn[p] = "connected"
    /\ TotalDiscarded < MaxRtcp
    /\ drain' = [drain EXCEPT ![p][e].n = @ + 1]
    /\ UNCHANGED <<clientVars, held, build, regVars, reqVars, sessVars, relayVars>>

\* The read fails (io.EOF once the session is closed, another error at any
\* time): the goroutine returns.
ReadRTCPFail(p, e) ==
    /\ drain[p][e].st = "running"
    /\ drain' = [drain EXCEPT ![p][e].st = "returned"]
    /\ UNCHANGED <<clientVars, held, build, regVars, reqVars, sessVars, relayVars>>

\* The RTCP-reading goroutines of session p.
Drain(p) == \E e \in Ends : ReadRTCP(p, e) \/ ReadRTCPFail(p, e)

\* One turn of the forwarding loop: ReadRTP returns the next packet, which is
\* written to the destination's AudioTrack; a failed WriteRTP ends the task.
Forward(p) ==
    /\ task[p].st = "running"
    /\ conn[p] # "closed"
    /\ rdIdx[p] < Len(sent[p])
    /\ rdIdx' = [rdIdx EXCEPT ![p] = @ + 1]
    /\ LET out == relayPacket(build, sent[p][rdIdx[p] + 1]) IN
        IF ~out.write
        THEN UNCHANGED <<task, sink>>
        ELSE \E written \in BOOLEAN :
                IF written
                THEN /\ sink' = [sink EXCEPT ![task[p].dst] = Append(@, out.pkt)]
                     /\ task' = task
                ELSE /\ sink' = sink
                     /\ task' = [task EXCEPT ![p].st = "writeerr"]
    /\ UNCHANGED <<clientVars, held, drain, build, regVars, reqVars, sessVars, sent>>

\* A failed ReadRTP that ends the forwarding goroutine of the opposite
\* direction too.
ReadFailBoth(p) ==
    /\ task[p].st = "running"
    /\ task' = [q \in Sessions |->
                  IF q = p \/ (q = task[p].dst /\ task[q].st = "running")
                  THEN [task[q] EXCEPT !.st = IF conn[p] = "closed" THEN "eof" ELSE "readerr"]
                  ELSE task[q]]
    /\ UNCHANGED <<clientVars, held, drain, build, regVars, reqVars, sessVars, sent, rdIdx, sink>>

\* ReadRTP fails: io.EOF once the session is closed, another error at any
\* time; the forwarding goroutine returns.
ReadFail(p) ==
    /\ task[p].st = "running"
    /\ task' = [task EXCEPT ![p].st = IF conn[p] = "closed" THEN "eof" ELSE "readerr"]
    /\ UNCHANGED <<clientVars, held, drain, build, regVars, reqVars, sessVars, sent, rdIdx, sink>>

\* The handler's steps between the construction of the Peer and writeAnswer,
\* and the end of writeAnswer.
Handler(p) ==
    \/ GetOrCreateRoom(p)
    \/ AddPeer(p)
    \/ ConnectPeers(p)
    \/ GatherComplete(p)
    \/ Respond(p)

\* The session's state changes and their callback.
Session(p) ==
    \/ Connected(p)
    \/ SessionFailed(p)
    \/ SessionClosed(p)
    \/ OnConnectionStateChange(p)

\* Media: packets arriving, the track event, the forwarding goroutine.
Relay(p) ==
    \/ SendRTP(p)
    \/ OnTrack(p)
    \/ Forward(p)
    \/ ReadFail(p)

\* Registry and signaling under every kind of request, concurrently handled;
\* no media is sent.
Next == \E p \in Sessions : Receive(p) \/ WriteAnswer(p) \/ Handler(p) \/ Session(p)

Spec == Init /\ [][Next]_vars

\* The goroutine of each state-change callback is eventually scheduled, and
\* r.mutex is held for a bounded time only.
FairSpec == Spec /\ \A p \in Sessions : WF_vars(OnConnectionStateChange(p))

\* Registry and signaling under every kind of request, with sessions that end
\* by the failure of their ICE transport.
IceNext ==
    \E p \in Sessions :
        \/ Receive(p)
        \/ WriteAnswer(p)
        \/ Handler(p)
        \/ Connected(p)
        \/ ICEFailed(p)
        \/ OnICEConnectionStateChange(p)
        \/ OnConnectionStateChange(p)

\* The goroutine of each callback is eventually scheduled.
IceSpec ==
    /\ Init /\ [][IceNext]_vars
    /\ \A p \in Sessions : WF_vars(OnICEConnectionStateChange(p))
    /\ \A p \in Sessions : WF_vars(OnConnectionStateChange(p))

\* Signaling and relay for well-formed requests to room "r1", one at a time,
\* whose sessions end by being closed.
RelayNext ==
    \E p \in Sessions :
        \/ ReceivePost(p)
        \/ WriteAnswerOk(p)
        \/ Handler(p)
        \/ Connected(p)
        \/ SessionClosed(p)
        \/ OnConnectionStateChange(p)
        \/ Relay(p)

RelaySpec == RelayInit /\ [][RelayNext]_vars

\* Signaling and relay for one pair of sessions, with the RTCP-reading
\* goroutines taking their turns and failing at any time.
DrainNext ==
    \E p \in 1 .. 2 :
        \/ ReceivePost(p)
        \/ WriteAnswerOk(p)
        \/ Handler(p)
        \/ Connected(p)
        \/ SessionClosed(p)
        \/ OnConnectionStateChange(p)
        \/ Relay(p)
        \/ Drain(p)

DrainSpec == RelayInit /\ [][DrainNext]_vars

\* A POST for either room whose session is constructed, arriving when no
\* other request is being handled.
ReceivePostRoom(p) ==
    /\ \A q \in Sessions : pc[q] \in {"idle", "done"}
    /\ ReceiveFrom(p, {"POST"}, SeenRoomParams \ {""}, {TRUE})

\* Signaling and relay for well-formed requests to two rooms, one at a time;
\* the sessions stay up and forwarding tasks end on read and write errors.
PairsNext ==
    \E p \in Sessions :
        \/ ReceivePostRoom(p)
        \/ WriteAnswerOk(p)
        \/ Handler(p)
        \/ Connected(p)
        \/ Relay(p)

PairsSpec == Init /\ [][PairsNext]_vars

\* ---------------------------------------------------------------- the mutexes
\* The registry operations step by step: Lock, then the body and the deferred
\* Unlock.  A goroutine is the handler of a request or a run of a session's
\* state-change callback.
whipHandlerOf(p) == <<"whipHandler", p, "">>
CallbackOf(p, state) == <<"OnConnectionStateChange", p, state>>
\* rm.mutex of the RoomManager.
ManagerMutex == <<"rm.mutex", NoRoom>>
\* addPeer and removePeer locking the RoomManager's mutex.
mutexOfManager(i) == ManagerMutex
\* r.mutex of the Room at address i.
mutexOf(i) == <<"r.mutex", i>>
\* mutex.Lock() can return: nobody holds the mutex.
Free(mu) == \A h \in held : h[2] # mu
States == {"failed", "closed"}

\* A POST for either room whose session is constructed.
ReceiveRoom(p) ==
    p <= MaxReq /\ ReceiveFrom(p, {"POST"}, SeenRoomParams \ {""}, {TRUE})

\* getOrCreateRoom: rm.mutex.Lock()
LockManager(p) ==
    /\ pc[p] = "getroom"
    /\ Free(ManagerMutex)
    /\ held' = held \cup {<<whipHandlerOf(p), ManagerMutex>>}
    /\ pc' = [pc EXCEPT ![p] = "getroom.locked"]
    /\ UNCHANGED <<clientVars, drain, build, regVars, nreq, method, reqRoom, status, resp,
                   room, otherPeer, slot, sessVars, relayVars>>

\* getOrCreateRoom: the map is read and written, the deferred Unlock runs.
GetOrCreateRoomLocked(p) ==
    /\ pc[p] = "getroom.locked"
    /\ LET got == getOrCreateRoom(rooms, heap, reqRoom[p]) IN
        /\ rooms' = got.rooms
        /\ heap' = got.heap
        /\ room' = [room EXCEPT ![p] = got.ret]
    /\ held' = held \ {<<whipHandlerOf(p), ManagerMutex>>}
    /\ pc' = [pc EXCEPT ![p] = "addpeer"]
    /\ UNCHANGED <<clientVars, drain, build, nreq, method, reqRoom, status, resp, otherPeer,
                   slot, sessVars, relayVars>>

\* addPeer: r.mutex.Lock()
LockRoomToAdd(p) ==
    /\ pc[p] = "addpeer"
    /\ Free(mutexOf(room[p]))
    /\ held' = held \cup {<<whipHandlerOf(p), mutexOf(room[p])>>}
    /\ pc' = [pc EXCEPT ![p] = "addpeer.locked"]
    /\ UNCHANGED <<clientVars, drain, build, regVars, nreq, method, reqRoom, status, resp,
                   room, otherPeer, slot, sessVars, relayVars>>

\* addPeer: the slots are read and written, the deferred Unlock runs.
AddPeerLocked(p) ==
    /\ pc[p] = "addpeer.locked"
    /\ LET r   == heap[room[p]]
           got == addPeer(r, p) IN
        /\ heap' = [heap EXCEPT ![room[p]] = got.room]
        /\ otherPeer' = [otherPeer EXCEPT ![p] = got.ret]
        /\ slot' = [slot EXCEPT ![p] =
                      IF got.room.PeerA = p /\ r.PeerA # p THEN "A"
                      ELSE IF got.room.PeerB = p /\ r.PeerB # p THEN "B"
                      ELSE "full"]
        /\ pc' = [pc EXCEPT ![p] = IF got.ret # NoPeer THEN "connect" ELSE "answer"]
    /\ held' = {h \in held : h[1] # whipHandlerOf(p)}
    /\ UNCHANGED <<clientVars, drain, build, rooms, nreq, method, reqRoom, status, resp, room,
                   sessVars, relayVars>>

\* The state-change callback runs for a Failed or Closed state: removePeer's
\* r.mutex.Lock()
LockRoomToRemove(p, state) ==
    /\ state \in pending[p]
    /\ removesOn(state)
    /\ \A h \in held : h[1] # CallbackOf(p, state)
    /\ Free(mutexOf(room[p]))
    /\ held' = held \cup {<<CallbackOf(p, state), mutexOf(room[p])>>}
    /\ UNCHANGED <<clientVars, drain, build, regVars, reqVars, sessVars, relayVars>>

\* removePeer: the slots are read and written, the deferred Unlock runs, the
\* callback returns.
RemovePeerLocked(p, state) ==
    /\ \E h \in held : h[1] = CallbackOf(p, state)
    /\ heap' = [heap EXCEPT ![room[p]] = removePeer(@, p)]
    /\ held' = {h \in held : h[1] # CallbackOf(p, state)}
    /\ pending' = [pending EXCEPT ![p] = @ \ {state}]
    /\ UNCHANGED <<clientVars, drain, build, rooms, reqVars, onTrack, gathered, conn, desc,
                   relayVars>>

\* The steps that lock or unlock a mutex.
Registry(p) ==
    \/ LockManager(p)
    \/ GetOrCreateRoomLocked(p)
    \/ LockRoomToAdd(p)
    \/ AddPeerLocked(p)
    \/ \E state \in States : LockRoomToRemove(p, state) \/ RemovePeerLocked(p, state)

\* Concurrent requests for two rooms with the registry operations step by
\* step; sessions fail after the answer.
LockNext ==
    \E p \in Sessions :
        \/ ReceiveRoom(p)
        \/ Registry(p)
        \/ ConnectPeers(p)
        \/ WriteAnswerOk(p)
        \/ GatherComplete(p)
        \/ Respond(p)
        \/ SessionFailed(p)

LockSpec == Init /\ [][LockNext]_vars

\* Every goroutine that has called Lock gets the mutex once it is free, and
\* Unlock follows.
FairLockSpec == LockSpec /\ \A p \in Sessions : WF_vars(Registry(p))

\* ================================================================ the clients
Clients == {"main.go:155", "main.go:765", "part_003"}
\* The programs that have extractOpusPacketsFromOgg.
Decoders == {"main.go:155", "part_003"}

\* ------------------------------------------------------ the container codec
\* A container is modelled page by page: its byte stream is the pages'
\* headers, segment tables and payloads one after the other, and a page's
\* segment table tells where the next page starts.  Payloads are byte
\* sequences.
Bytes(n) == [k \in 1 .. n |-> k % 256]
HeaderTypeBOS == 2
HeaderTypeEOS == 4
HeaderTypeNone == 0
MaxSegment == 255
SamplesPerPacket == 960
\* "OpusHead", "OpusTags", "Go WebRTC Client"
OpusHeadMagic == <<79, 112, 117, 115, 72, 101, 97, 100>>
OpusTagsMagic == <<79, 112, 117, 115, 84, 97, 103, 115>>
VendorString == <<71, 111, 32, 87, 101, 98, 82, 84, 67, 32, 67, 108, 105, 101, 110, 116>>
\* version 1, 2 channels, pre-skip 0, 48000 Hz, gain 0, mapping family 0
opusHead == OpusHeadMagic \o <<1, 2, 0, 0, 128, 187, 0, 0, 0, 0, 0>>
\* vendor string length, vendor string, empty user comment list
opusTags == OpusTagsMagic \o <<Len(VendorString), 0, 0, 0>> \o VendorString \o <<0, 0, 0, 0>>

\* crc32Ogg over the page with a zero checksum field, as an ideal checksum:
\* equal exactly when the checksummed bytes are.
crc32Ogg(headerType, granule, serial, index, segs, data) ==
    <<headerType, granule, serial, index, segs, data>>

\* writeOggPage: one page with a one-entry segment table, byte(len(data)).
writeOggPage(data, headerType, granule, serial, pageSequence) ==
    LET segs == <<Len(data) % 256>> IN
    [headerType |-> headerType, granule |-> granule, serial |-> serial,
     index |-> pageSequence, segs |-> segs, data |-> data,
     crc |-> crc32Ogg(headerType, granule, serial, pageSequence, segs, data)]

\* The loop leaving at the first empty or over-long frame (break for continue).
RECURSIVE audioPagesBreak(_, _, _, _, _)
audioPagesBreak(pkts, k, granulePosition, pageSequence, serial) ==
    IF k > Len(pkts) THEN << >>
    ELSE IF Len(pkts[k]) = 0 \/ Len(pkts[k]) > MaxSegment
    THEN << >>
    ELSE <<writeOggPage(pkts[k],
                        IF k = Len(pkts) THEN HeaderTypeEOS ELSE HeaderTypeNone,
                        granulePosition + SamplesPerPacket, serial, pageSequence)>>
         \o audioPagesBreak(pkts, k + 1, granulePosition + SamplesPerPacket,
                            pageSequence + 1, serial)

\* The loop over opusPackets from index k on (Go's i = k - 1), with the
\* granule position and page sequence reached.  The granule position is a
\* uint64 and the page sequence a uint32: neither can wrap in a batch that
\* fits in memory.
RECURSIVE audioPages(_, _, _, _, _)
audioPages(pkts, k, granulePosition, pageSequence, serial) ==
    IF k > Len(pkts) THEN << >>
    ELSE IF Len(pkts[k]) = 0 \/ Len(pkts[k]) > MaxSegment
    THEN audioPages(pkts, k + 1, granulePosition, pageSequence, serial)
    ELSE <<writeOggPage(pkts[k],
                        IF k = Len(pkts) THEN HeaderTypeEOS ELSE HeaderTypeNone,
                        granulePosition + SamplesPerPacket, serial, pageSequence)>>
         \o audioPages(pkts, k + 1, granulePosition + SamplesPerPacket,
                       pageSequence + 1, serial)

\* createOggOpusFile of src/client/main.go:1288; serial: time.Now().Unix().
createOggOpusFile(pkts, serial) ==
    <<writeOggPage(opusHead, HeaderTypeBOS, 0, serial, 0),
      writeOggPage(opusTags, HeaderTypeNone, 0, serial, 1)>>
    \o audioPages(pkts, 1, 0, 2, serial)

RECURSIVE SumSeq(_)
SumSeq(q) == IF q = << >> THEN 0 ELSE Head(q) + SumSeq(Tail(q))

\* oggreader's ParseNextPage on the page that starts here: the payload is as
\* long as the segment table says; an error when the checksum does not match
\* or when that length is not the page's, so that what follows is no page.
ParseNextPage(pg) ==
    [err |-> \/ pg.crc # crc32Ogg(pg.headerType, pg.granule, pg.serial,
                                  pg.index, pg.segs, pg.data)
             \/ SumSeq(pg.segs) # Len(pg.data),
     payload |-> SubSeq(pg.data, 1, SumSeq(pg.segs))]

\* oggreader.NewWith fails: no first page, or the first page is not an
\* identification header (readHeaders).
NewWithFails(ogg) ==
    \/ ogg = << >>
    \/ ParseNextPage(ogg[1]).err
    \/ ogg[1].headerType # HeaderTypeBOS
    \/ Len(ParseNextPage(ogg[1]).payload) # Len(opusHead)
    \/ SubSeq(ParseNextPage(ogg[1]).payload, 1, 8) # OpusHeadMagic

\* part_003 leaves out empty pages and pages that start with "OpusHead" or
\* "OpusTags"; src/client/main.go:700 keeps every page.
KeepsPage(decoder, payload) ==
    \/ decoder = "main.go:155"
    \/ /\ Len(payload) > 0
       /\ ~ /\ Len(payload) >= 8
            /\ SubSeq(payload, 1, 8) \in {OpusHeadMagic, OpusTagsMagic}

\* The loop of extractOpusPacketsFromOgg over the pages from index k on.
RECURSIVE parsePages(_, _, _, _)
parsePages(decoder, ogg, k, got) ==
    IF k > Len(ogg) THEN [err |-> FALSE, packets |-> got]
    ELSE LET page == ParseNextPage(ogg[k]) IN
         IF page.err THEN [err |-> TRUE, packets |-> << >>]
         ELSE parsePages(decoder, ogg, k + 1,
                         IF KeepsPage(decoder, page.payload)
                         THEN Append(got, page.payload) ELSE got)

\* extractOpusPacketsFromOgg: NewWith consumes the first page, then every
\* ParseNextPage until io.EOF.
extractOpusPacketsFromOgg(decoder, ogg) ==
    IF NewWithFails(ogg) THEN [err |-> TRUE, packets |-> << >>]
    ELSE parsePages(decoder, ogg, 2, << >>)

FramePayloads == {<< >>, <<1>>, <<2>>, Bytes(MaxSegment + 1)}
Batches == UNION {[1 .. n -> FramePayloads] : n \in 0 .. MaxFrames}
Serials == {1, 2}

\* A batch of frames and a decoder.
CodecInit ==
    /\ ServerInit({"server"}) /\ SpeakIdle /\ ListenIdle
    /\ client \in Decoders
    /\ stage = "frames"
    /\ batch \in Batches
    /\ oggData = << >> /\ packets = << >> /\ decodeErr = FALSE

\* oggData := createOggOpusFile(batch)
Encode ==
    /\ stage = "frames"
    /\ \E serial \in Serials : oggData' = createOggOpusFile(batch, serial)
    /\ stage' = "container"
    /\ UNCHANGED <<serverVars, client, batch, packets, decodeErr, speakVars, listenVars>>

\* packets, err := extractOpusPacketsFromOgg(oggData)
Decode ==
    /\ stage = "container"
    /\ LET got == extractOpusPacketsFromOgg(client, oggData) IN
        /\ packets' = got.packets
        /\ decodeErr' = got.err
    /\ stage' = "decoded"
    /\ UNCHANGED <<serverVars, client, batch, oggData, speakVars, listenVars>>

CodecNext == Encode \/ Decode

\* Encoding a batch, then decoding the container.
CodecSpec == CodecInit /\ [][CodecNext]_vars

\* ------------------------------------------------------------ the packetizer
MaxPayloadSize == 960
Uint16 == 65536

\* fragmentOpusAudio from offset `from` on: chunks of maxPayloadSize bytes.
RECURSIVE fragmentFrom(_, _)
fragmentFrom(audioData, from) ==
    IF from >= Len(audioData) THEN << >>
    ELSE LET end == IF from + MaxPayloadSize > Len(audioData)
                    THEN Len(audioData) ELSE from + MaxPayloadSize
         IN <<SubSeq(audioData, from + 1, end)>> \o fragmentFrom(audioData, end)

fragmentOpusAudio(audioData) == fragmentFrom(audioData, 0)

\* The list sendAudioToTrack loops over: extractOpusPacketsFromOgg(audioData),
\* or fragmentOpusAudio(audioData) in the program of src/client/main.go:765.
toPackets(c, audioData) ==
    IF c = "main.go:765"
    THEN [err |-> FALSE, packets |-> fragmentOpusAudio(audioData)]
    ELSE extractOpusPacketsFromOgg(c, audioData)

\* The header sendAudioToTrack marks its first packet with.
rtpPacketMarkFirst(idx, n, seq, ts, payload) ==
    [seq |-> seq, ts |-> ts, marker |-> idx = 0, payload |-> payload]

\* The rtp.Packet sendAudioToTrack builds in turn idx (Go's i) of n.
rtpPacket(idx, n, seq, ts, payload) ==
    [seq |-> seq, ts |-> ts, marker |-> idx = n - 1, payload |-> payload]

\* What textToSpeech can return to the programs that decode a container: a
\* container of one frame per page with n distinct frames, or bytes that are
\* no container.
Frames(n) == [k \in 1 .. n |-> <<k>>]
Containers == {createOggOpusFile(Frames(n), 1) : n \in 0 .. MaxFrames} \cup {<< >>}
\* What it can return to the program that cuts the bytes into fragments.
AudioSizes == {0, 1, MaxPayloadSize, MaxPayloadSize + 1}
Audios(c) ==
    IF c = "main.go:765" THEN {Bytes(n) : n \in AudioSizes} ELSE Containers

\* The programs whose processSpeakRequest goes through the phrases of the
\* request and then the closing phrase; part_003 sends one audio and returns.
PhraseJobs == {"main.go:155", "main.go:765"}
\* The audios a job of program c sends: the phrases and the closing phrase,
\* or the one audio of part_003.
LastAudio(c) == IF c \in PhraseJobs THEN MaxPhrases + 1 ELSE 1

\* A speak job whose signaling succeeded (SetRemoteDescription returned nil),
\* before its first phrase.
SpeakInit ==
    /\ ServerInit({"server"}) /\ CodecIdle /\ ListenIdle
    /\ client \in Clients
    /\ speak = "tts" /\ phrase = 1
    /\ fragments = << >> /\ loopI = 0
    /\ sequenceNumber = 0 /\ timestamp = 0 /\ wire = << >>
    /\ attempts = << >> /\ peerConnection = "open"

\* A processSpeakRequest that calls textToSpeech again for a phrase whose
\* sending failed.
NextPhraseRetry ==
    IF speak = "loop" /\ loopI < Len(fragments)
    THEN speak' = "tts" /\ phrase' = phrase
    ELSE IF phrase = LastAudio(client)
    THEN speak' = "done" /\ phrase' = phrase
    ELSE speak' = "tts" /\ phrase' = phrase + 1

\* processSpeakRequest goes on to the next phrase, then to the closing
\* phrase, then to its end.
NextPhrase ==
    IF phrase = LastAudio(client)
    THEN speak' = "done" /\ phrase' = phrase
    ELSE speak' = "tts" /\ phrase' = phrase + 1

\* textToSpeech(phrase), then sendAudioToTrack up to its loop; a failure of
\* either is printed and the job goes on.  (part_003 has its audio before
\* the loop: generateSyntheticAudio, which cannot fail.)
TextToSpeech ==
    /\ speak = "tts"
    /\ attempts' = Append(attempts, phrase)
    /\ \/ /\ client \in PhraseJobs
          /\ NextPhrase
          /\ UNCHANGED <<fragments, loopI, sequenceNumber, timestamp>>
       \/ \E audioData \in Audios(client) :
            LET got == toPackets(client, audioData) IN
            IF got.err
            THEN /\ NextPhrase
                 /\ UNCHANGED <<fragments, loopI, sequenceNumber, timestamp>>
            ELSE /\ fragments' = got.packets
                 /\ loopI' = 0
                 /\ sequenceNumber' = 0
                 /\ timestamp' = 0
                 /\ speak' = "loop"
                 /\ phrase' = phrase
    /\ UNCHANGED <<serverVars, client, codecVars, wire, peerConnection, listenVars>>

\* One turn of sendAudioToTrack's loop: the packet is built and given to
\* track.WriteRTP; a failed write returns the error to processSpeakRequest.
\* The timestamp is a uint32, which no batch that fits in memory wraps.
WriteRTP ==
    /\ speak = "loop"
    /\ loopI < Len(fragments)
    /\ LET opusPacket == fragments[loopI + 1] IN
        IF client = "part_003" /\ Len(opusPacket) = 0
        THEN /\ loopI' = loopI + 1
             /\ UNCHANGED <<speak, phrase, sequenceNumber, timestamp, wire>>
        ELSE \E written \in BOOLEAN :
            IF written
            THEN /\ wire' = Append(wire,
                        [batch |-> phrase,
                         pkt |-> rtpPacket(loopI, Len(fragments), sequenceNumber,
                                           timestamp, opusPacket)])
                 /\ loopI' = loopI + 1
                 /\ sequenceNumber' = (sequenceNumber + 1) % Uint16
                 /\ timestamp' = timestamp + SamplesPerFrame
                 /\ UNCHANGED <<speak, phrase>>
            ELSE /\ NextPhrase
                 /\ UNCHANGED <<loopI, sequenceNumber, timestamp, wire>>
    /\ UNCHANGED <<serverVars, client, codecVars, fragments, attempts,
                   peerConnection, listenVars>>

\* The loop is over: sendAudioToTrack returns nil.
ReturnNil ==
    /\ speak = "loop"
    /\ loopI = Len(fragments)
    /\ NextPhrase
    /\ UNCHANGED <<serverVars, client, codecVars, fragments, loopI,
                   sequenceNumber, timestamp, wire, attempts, peerConnection,
                   listenVars>>

\* processSpeakRequest returning without the deferred Close.
ReturnNoClose ==
    /\ speak = "done"
    /\ speak' = "returned"
    /\ UNCHANGED <<serverVars, client, codecVars, phrase, fragments, loopI,
                   sequenceNumber, timestamp, wire, attempts, peerConnection,
                   listenVars>>

\* processSpeakRequest sleeps and returns: the deferred
\* peerConnection.Close() runs.
Return ==
    /\ speak = "done"
    /\ speak' = "returned"
    /\ peerConnection' = "closed"
    /\ UNCHANGED <<serverVars, client, codecVars, phrase, fragments, loopI,
                   sequenceNumber, timestamp, wire, attempts, listenVars>>

SpeakNext == TextToSpeech \/ WriteRTP \/ ReturnNil \/ Return

\* One speak job on one track: the phrases and the closing phrase, or the one
\* audio of part_003.
SpeakSpec == SpeakInit /\ [][SpeakNext]_vars

\* The job's goroutine keeps running: its sleeps end, textToSpeech returns
\* within its client's timeout and WriteRTP returns.
FairSpeakSpec == SpeakSpec /\ WF_vars(SpeakNext)

\* -------------------------------------------------------------- the listener
PacketsPerBatch == 150
\* The packets a listener can receive: the n-th carries <<n>> or nothing.
HeardPayloads(n) == {<< >>, <<n>>}

\* The OnTrack callback has started the reading goroutine (and, in the
\* programs of src/client/main.go, the ticker goroutine).
ListenInit ==
    /\ ServerInit({"server"}) /\ CodecIdle /\ SpeakIdle
    /\ client \in Clients
    /\ listen = "reading"
    /\ opusPackets = << >> /\ handed = << >> /\ rawFiles = << >> /\ heard = << >>

\* track.ReadRTP returns a packet: its payload is appended to opusPackets
\* (the marker bit is kept with it here, for the properties only).  part_003
\* then closes the batch on packetsPerBatch packets or on the marker bit:
\* it writes the payloads to a .bin file and empties opusPackets.
ListenReadRTP ==
    /\ listen = "reading"
    /\ Len(heard) < MaxHeard
    /\ \E payload \in HeardPayloads(Len(heard) + 1), marker \in BOOLEAN :
        LET pkt == [payload |-> payload, marker |-> marker]
            acc == Append(opusPackets, pkt) IN
        /\ heard' = Append(heard, pkt)
        /\ IF client = "part_003" /\ (Len(acc) >= PacketsPerBatch \/ marker)
           THEN /\ rawFiles' = Append(rawFiles, acc)
                /\ opusPackets' = << >>
           ELSE /\ opusPackets' = acc
                /\ rawFiles' = rawFiles
    /\ UNCHANGED <<serverVars, client, codecVars, speakVars, listen, handed>>

\* A ticker that gives opusPackets to createOggOpusFile without emptying it.
TickKeep ==
    /\ client # "part_003"
    /\ listen # "idle"
    /\ opusPackets # << >>
    /\ Len(handed) < MaxHeard
    /\ handed' = Append(handed, opusPackets)
    /\ UNCHANGED <<serverVars, client, codecVars, speakVars, listen, opusPackets, rawFiles, heard>>

\* The 3-second ticker of the programs of src/client/main.go fires with a
\* non-empty opusPackets: it is copied, emptied and given to
\* createOggOpusFile.  (With an empty opusPackets the tick does nothing.)
Tick ==
    /\ client # "part_003"
    /\ listen # "idle"
    /\ opusPackets # << >>
    /\ handed' = Append(handed, opusPackets)
    /\ opusPackets' = << >>
    /\ UNCHANGED <<serverVars, client, codecVars, speakVars, listen, rawFiles, heard>>

\* track.ReadRTP fails: the reading goroutine returns; part_003 first calls
\* processBatch, which gives a non-empty opusPackets to createOggOpusFile.
ReadError ==
    /\ listen = "reading"
    /\ listen' = "ended"
    /\ IF client = "part_003" /\ opusPackets # << >>
       THEN /\ handed' = Append(handed, opusPackets)
            /\ opusPackets' = << >>
       ELSE UNCHANGED <<handed, opusPackets>>
    /\ UNCHANGED <<serverVars, client, codecVars, speakVars, rawFiles, heard>>

ListenNext == ListenReadRTP \/ Tick \/ ReadError

\* One listen job receiving up to MaxHeard packets.
ListenSpec == ListenInit /\ [][ListenNext]_vars

\* The ticker goroutine never returns and its ticker fires every 3 seconds.
FairListenSpec == ListenSpec /\ WF_vars(Tick)

\* ------------------------------------------------------------- properties
Dead == {"failed", "closed"}
Slots(r) == {r.PeerA, r.PeerB} \ {NoPeer}
RoomAddrs == 1 .. Len(heap)
\* The sessions that have called addPeer on the Room at address i.
Added(i) == {p \in Sessions : room[p] = i /\ slot[p] # ""}
\* No removePeer can have run on the Room at address i.
Untouched(i) == \A p \in Sessions : room[p] = i => conn[p] \notin Dead
\* This step is p's call of addPeer.
AddPeerStep(p) == pc[p] = "addpeer" /\ pc'[p] # "addpeer"
\* This step is a run of p's state-change callback.
CallbackStep(p) == pending'[p] # pending[p] /\ pending'[p] \subseteq pending[p]
\* The session's Failed/Closed notifications have all been handled.
Handled(p) == conn[p] \in Dead /\ pending[p] = {}

\* C1: starting from an empty room and with addPeer calls only, the first
\* call takes slot A and returns no partner, the second takes slot B and
\* returns slot A's peer, a third returns no partner; whatever the order in
\* which concurrent requests reach addPeer, exactly one call gets a partner.
C1_PairingExactlyOnce ==
    /\ [](\A i \in RoomAddrs : Untouched(i) =>
            /\ Added(i) # {} =>
                 \E a \in Added(i) :
                    /\ slot[a] = "A" /\ heap[i].PeerA = a
                    /\ otherPeer[a] = NoPeer
            /\ Cardinality(Added(i)) >= 2 =>
                 \E b \in Added(i) :
                    /\ slot[b] = "B" /\ heap[i].PeerB = b
                    /\ otherPeer[b] = heap[i].PeerA
                    /\ \A q \in Added(i) \ {b} : otherPeer[q] = NoPeer)
    /\ [][\A p \in Sessions : AddPeerStep(p) =>
            LET r == heap[room[p]]
                n == heap'[room[p]] IN
            /\ (r.PeerA = NoPeer /\ r.PeerB = NoPeer) =>
                 n.PeerA = p /\ n.PeerB = NoPeer /\ otherPeer'[p] = NoPeer
            /\ (r.PeerA # NoPeer /\ r.PeerB = NoPeer) =>
                 n.PeerA = r.PeerA /\ n.PeerB = p /\ otherPeer'[p] = r.PeerA
            /\ (r.PeerA # NoPeer /\ r.PeerB # NoPeer) =>
                 otherPeer'[p] = NoPeer]_vars

\* Three requests for one room have called addPeer, and the request that
\* arrived second registered first.
C1_Witness ==
    \E i \in RoomAddrs : \E a, b, c \in Added(i) :
        /\ Untouched(i)
        /\ slot[a] = "A" /\ slot[b] = "B" /\ slot[c] = "full"
        /\ otherPeer[b] = a /\ otherPeer[a] = NoPeer /\ otherPeer[c] = NoPeer
        /\ b < a

\* C3: addPeer on a room whose two slots are occupied leaves both slots as
\* they were, returns no partner and raises no error (the handler goes on to
\* writeAnswer with no status written).
C3_FullRoomNoOp ==
    [][\A p \in Sessions : AddPeerStep(p) =>
          LET r == heap[room[p]] IN
          (r.PeerA # NoPeer /\ r.PeerB # NoPeer) =>
              /\ heap'[room[p]] = r
              /\ otherPeer'[p] = NoPeer
              /\ status'[p] = 0
              /\ pc'[p] = "answer"]_vars

\* A third peer has called addPeer on a full room, which still holds the two
\* peers it held.
C3_Witness ==
    \E p \in Sessions :
        /\ slot[p] = "full" /\ pc[p] = "answer"
        /\ heap[room[p]].PeerA \notin {NoPeer, p}
        /\ heap[room[p]].PeerB \notin {NoPeer, p}

\* C4: removePeer(room, p) clears exactly the slot that holds p and leaves
\* the other slot (and every other room) as it was; with p in neither slot it
\* changes nothing.
C4_RemoveExactSlot ==
    [][\A p \in Sessions : CallbackStep(p) =>
          LET r == heap[room[p]]
              n == heap'[room[p]] IN
          /\ r.PeerA = p => n.PeerA = NoPeer /\ n.PeerB = r.PeerB
          /\ (r.PeerB = p /\ r.PeerA # p) => n.PeerB = NoPeer /\ n.PeerA = r.PeerA
          /\ (r.PeerA # p /\ r.PeerB # p) => n = r
          /\ \A i \in RoomAddrs : i # room[p] => heap'[i] = heap[i]]_vars

\* The peer refused by a full room was removed (nothing to clear), then the
\* peer of slot B was removed: slot A still holds its peer.
C4_Witness ==
    \E a, b, c \in Sessions :
        /\ room[a] = room[b] /\ room[b] = room[c]
        /\ slot[c] = "full" /\ Handled(c)
        /\ slot[b] = "B" /\ Handled(b)
        /\ heap[room[a]].PeerA = a /\ heap[room[a]].PeerB = NoPeer

\* C5: getOrCreateRoom is idempotent and atomic: all calls with one
\* identifier, sequential or concurrent, return the same Room, and at most one
\* Room is ever created per identifier.
C5_OneRoomPerId ==
    /\ \A id \in RoomIDs :
          Cardinality({i \in RoomAddrs : heap[i].ID = id}) <= 1
    /\ \A p \in Sessions : room[p] # NoRoom =>
          /\ room[p] = rooms[reqRoom[p]]
          /\ heap[room[p]].ID = reqRoom[p]
    /\ \A p, q \in Sessions :
          (room[p] # NoRoom /\ room[q] # NoRoom /\ reqRoom[p] = reqRoom[q])
              => room[p] = room[q]

\* Two handlers hold the Room of the same identifier at the same time, both
\* between getOrCreateRoom and addPeer.
C5_Witness ==
    \E p, q \in Sessions :
        /\ p # q /\ pc[p] = "addpeer" /\ pc[q] = "addpeer"
        /\ reqRoom[p] = reqRoom[q] /\ room[p] = room[q]

\* C6: a signaling request that ends with a server error left the registry
\* as it was: its peer is in no slot and no room was created for it.
C6_FailedRequestLeavesRegistry ==
    \A p \in Sessions : status[p] = StatusInternalServerError =>
        /\ ~InSlot(p)
        /\ room[p] = NoRoom

\* C7: once a registered peer's session is Failed or Closed, removePeer runs
\* for it, so the peer leaves its slot; it never comes back into a slot, the
\* session stays ended and its handler never runs again.
C7_EndedSessionRemoved ==
    /\ \A p \in Sessions : (conn[p] \in Dead /\ InSlot(p)) ~> ~InSlot(p)
    /\ [][\A p \in Sessions : conn[p] \in Dead =>
            /\ conn'[p] \in Dead
            /\ pc'[p] = pc[p]
            /\ ~InSlot(p) => ~InSlot(p)']_vars

\* A peer that held a slot is out of it after its session ended and the
\* notification was handled.
C7_Witness ==
    \E p \in Sessions : slot[p] \in {"A", "B"} /\ Handled(p) /\ ~InSlot(p)

\* ------------------------------------------------------ relay properties
\* The packets ReadRTP has returned to session p's forwarding task.
ReadBy(p) == SubSeq(sent[p], 1, rdIdx[p])
FromSrc(q, p) == SelectSeq(sink[q], LAMBDA k : k.src = p)
\* The packets session p's forwarding task has written to its destination.
WrittenBy(p) == IF task[p].dst = NoPeer THEN << >> ELSE FromSrc(task[p].dst, p)
\* Session p's forwarding task is in its loop and its ReadRTP can still
\* return packets.
Forwarding(p) == task[p].st = "running" /\ conn[p] # "closed"
\* The sessions of the Room at address i that such a task reads from or
\* writes to.
Wired(i) ==
    {p \in Sessions : room[p] = i /\
        \/ Forwarding(p)
        \/ \E q \in Sessions : Forwarding(q) /\ task[q].dst = p}
\* The packets of ReadBy(p) that the build hands to WriteRTP, leaving out the
\* last one read when its write failed.
Kept(p) ==
    LET rd == IF task[p].st = "writeerr"
              THEN SubSeq(ReadBy(p), 1, rdIdx[p] - 1) ELSE ReadBy(p)
    IN SelectSeq(rd, LAMBDA k : build = "server" \/ Len(k.payload) > 0)
SamePacket(w, k) ==
    /\ w.src = k.src /\ w.seq = k.seq /\ w.ts = k.ts
    /\ w.marker = k.marker /\ w.payload = k.payload

\* C2: a room holds at most two peers, and at most two sessions of a room
\* are wired into relay at any time.
C2_AtMostTwoWired ==
    \A i \in RoomAddrs :
        /\ Cardinality(Slots(heap[i])) <= 2
        /\ Cardinality(Wired(i)) <= 2

\* C8: once the second peer is registered and the pair is wired, each of the
\* two peers whose inbound media is available has a forwarding task towards
\* its partner, whether the media came before or after the pairing.
C8_BothDirectionsActive ==
    \A i \in RoomAddrs : \A a, b \in Sessions :
        ( /\ heap[i].PeerA = a /\ heap[i].PeerB = b
          /\ otherPeer[b] = a /\ pc[b] \notin {"addpeer", "connect"}
          /\ conn[a] # "closed" /\ conn[b] # "closed" )
        => /\ sent[a] # << >> /\ task[a].st # "none" => task[a].dst = b
           /\ sent[b] # << >> /\ task[b].st # "none" => task[b].dst = a

\* C9: after B's session is Closed (A in slot A, B in slot B, paired) slot B
\* is empty, the removal left slot A to A, and from then on no packet is
\* forwarded from A to B nor from B to A.
C9_NoForwardAfterClose ==
    [][\A a, b \in Sessions :
          (slot[a] = "A" /\ slot[b] = "B" /\ otherPeer[b] = a) =>
          /\ (CallbackStep(b) /\ heap[room[b]].PeerB = b) =>
                /\ heap'[room[b]].PeerB = NoPeer
                /\ heap'[room[b]].PeerA = heap[room[b]].PeerA
          /\ (conn[b] = "closed" /\ pending[b] = {}) =>
                /\ ~InSlot(b)
                /\ FromSrc(b, a)' = FromSrc(b, a)
                /\ FromSrc(a, b)' = FromSrc(a, b)]_vars

\* C10 as stated: every packet read by a forwarding task is written to the
\* destination sink, in order and with the same payload; none is dropped.
C10_EveryPacketWritten ==
    \A p \in Sessions : task[p].dst # NoPeer =>
        /\ Len(WrittenBy(p)) = Len(ReadBy(p))
        /\ \A n \in 1 .. Len(WrittenBy(p)) : SamePacket(WrittenBy(p)[n], ReadBy(p)[n])

\* C10, amended: the packets a forwarding task has written are, in the order
\* read and with the same sequence number, timestamp, marker and payload, the
\* packets it has read, except a packet whose write failed (which ends the
\* task) and, in the build that skips them, the packets with an empty payload;
\* nothing is duplicated, reordered or held back.
C10_ForwardsInOrder ==
    \A p \in Sessions :
        /\ Len(WrittenBy(p)) = Len(Kept(p))
        /\ \A n \in 1 .. Len(WrittenBy(p)) : SamePacket(WrittenBy(p)[n], Kept(p)[n])
        /\ \A q \in Sessions : q # task[p].dst => FromSrc(q, p) = << >>

\* A running forwarding task has read two packets and written both.
C10_Witness ==
    \E p \in Sessions :
        /\ task[p].st = "running" /\ rdIdx[p] = MaxPkts
        /\ Len(WrittenBy(p)) = MaxPkts
        /\ WrittenBy(p)[1].seq < WrittenBy(p)[MaxPkts].seq

\* ------------------------------------------ request and teardown properties
\* Session p's forwarding task returned on a failed ReadRTP (not io.EOF) or a
\* failed WriteRTP.
RelayFailed(p) == task[p].st \in {"readerr", "writeerr"}
\* This step is the first part of whipHandler for request p.
ReceiveStep(p) == nreq = p - 1 /\ nreq' = p
\* Nothing of the registry, of any session or of the relay changes.
ServerStateUnchanged == UNCHANGED <<regVars, room, otherPeer, slot, sessVars, relayVars>>
\* Request p left no trace in the server: no room, no slot, no session, no
\* relay wiring.
NoTrace(p) ==
    /\ pc[p] = "done"
    /\ room[p] = NoRoom /\ slot[p] = "" /\ otherPeer[p] = NoPeer /\ ~InSlot(p)
    /\ desc[p] = [remote |-> FALSE, local |-> FALSE]
    /\ ~gathered[p] /\ conn[p] = "new" /\ pending[p] = {}
    /\ onTrack[p] = NoPeer /\ task[p] = NoTask
    /\ \A q \in Sessions : onTrack[q] # p /\ task[q].dst # p

\* C11: when a forwarding task returns on a read or write failure, nothing is
\* reported to a caller (the responses stay as they were), the task has left
\* its loop, and once no notification is pending the peer owning the failed
\* path (the source; for a failed write the source or the destination) is out
\* of its slot.
C11_RelayFailureRemovesPeer ==
    \A p \in Sessions : (RelayFailed(p) /\ pending[p] = {}) =>
        /\ status[p] = StatusCreated
        /\ ~Forwarding(p)
        /\ \/ ~InSlot(p)
           \/ task[p].st = "writeerr" /\ pending[task[p].dst] = {}
                /\ ~InSlot(task[p].dst)

\* C12: a request that is not OPTIONS and has no room parameter is answered
\* 400 and, at that step and ever after, has created no room, constructed no
\* session, registered no peer and wired no relay.
C12_MissingRoomBadRequest ==
    /\ [](\A p \in Sessions :
            (method[p] \notin {"", "OPTIONS"} /\ reqRoom[p] = "") =>
                /\ status[p] = StatusBadRequest
                /\ resp[p] = BodyOnly(RoomRequired)
                /\ NoTrace(p))
    /\ [][\A p \in Sessions :
            (ReceiveStep(p) /\ method'[p] # "OPTIONS" /\ reqRoom'[p] = "") =>
                /\ status'[p] = StatusBadRequest
                /\ ServerStateUnchanged]_vars

\* A request without room parameter was refused while a room with a
\* registered peer exists, and the registry is what it was.
C12_Witness ==
    \E p, q \in Sessions :
        /\ method[p] = "POST" /\ reqRoom[p] = "" /\ status[p] = StatusBadRequest
        /\ q < p /\ InSlot(q) /\ Len(heap) = 1

\* C13: the 201 response, with Location /whip and the answer as body, is
\* written only when the offer is the remote description, the answer is the
\* local description and gathering is complete: a body that is an answer is
\* the answer with all its candidates, never a partial one.
C13_AnswerAfterGathering ==
    \A p \in Sessions :
        /\ status[p] = StatusCreated =>
             /\ desc[p].remote /\ desc[p].local /\ gathered[p]
             /\ resp[p] = [location |-> WhipPath, body |-> CompleteAnswer]
        /\ resp[p].body # PartialAnswer
        /\ (resp[p].location # "" \/ resp[p].body = CompleteAnswer) =>
             status[p] = StatusCreated

\* One request is answered 201 while another one, past SetLocalDescription,
\* still waits for its gathering to complete and has written nothing.
C13_Witness ==
    \E p, q \in Sessions :
        /\ status[p] = StatusCreated /\ resp[p].body = CompleteAnswer
        /\ pc[q] = "gather" /\ ~gathered[q] /\ desc[q].local
        /\ status[q] = 0 /\ resp[q] = NoResponse

\* C14: an OPTIONS request returns with an empty body and changes nothing of
\* the server: no room (whatever its room parameter), no session, no peer, no
\* slot, at that step and ever after.
C14_OptionsNoEffect ==
    /\ [](\A p \in Sessions : method[p] = "OPTIONS" =>
            /\ status[p] = StatusOK
            /\ resp[p] = NoResponse
            /\ NoTrace(p))
    /\ [][\A p \in Sessions : (ReceiveStep(p) /\ method'[p] = "OPTIONS") =>
            /\ resp'[p].body = ""
            /\ ServerStateUnchanged]_vars

\* An OPTIONS request named a room that does not exist while another room
\* holds a peer: the room named still does not exist.
C14_Witness ==
    \E p, q \in Sessions :
        /\ method[p] = "OPTIONS" /\ reqRoom[p] \in RoomIDs
        /\ rooms[reqRoom[p]] = NoRoom /\ pc[p] = "done"
        /\ q < p /\ InSlot(q)

\* addPeer found both slots of the room taken.
Refused(p) == slot[p] = "full"
\* Session p is in no relay: its OnTrack handler is not set, no forwarding
\* task reads its track or writes to its AudioTrack, and no packet of it was
\* forwarded nor any packet forwarded to it.
Unwired(p) ==
    /\ onTrack[p] = NoPeer /\ task[p].dst = NoPeer /\ sink[p] = << >>
    /\ \A q \in Sessions :
          onTrack[q] # p /\ task[q].dst # p /\ FromSrc(q, p) = << >>
\* The request for a full room goes through the whole negotiation.
RefusedNegotiated(p) ==
    /\ pc[p] \in {"answer", "gather", "done"}
    /\ pc[p] = "done" => status[p] = StatusCreated /\ resp[p].body = CompleteAnswer

\* C15 as stated: a request for a full room is negotiated and answered 201,
\* its peer is in no slot and in no relay, and the server never closes its
\* session.
C15_FullRoomPeerInert ==
    \A p \in Sessions : Refused(p) =>
        /\ RefusedNegotiated(p)
        /\ ~InSlot(p)
        /\ Unwired(p)
        /\ conn[p] # "closed"

\* C15, amended: a request for a full room is negotiated and answered 201,
\* its peer is never in a slot nor in a relay; the server closes its session
\* only when the session's own ICE transport fails, as it does for any
\* session, and the state-change callback that then runs changes no slot.
C15_FullRoomPeerUnregistered ==
    /\ [](\A p \in Sessions : Refused(p) =>
            /\ RefusedNegotiated(p)
            /\ ~InSlot(p)
            /\ Unwired(p)
            /\ conn[p] = "closed" => Negotiated(p))
    /\ [][\A p \in Sessions : Refused(p) =>
            /\ CallbackStep(p) => heap' = heap
            /\ (conn'[p] = "closed" /\ conn[p] # "closed") =>
                  pc[p] = "done" /\ pc' = pc /\ heap' = heap]_vars

\* The peer refused by a full room is answered 201 and connected, its packet
\* reached no forwarding task, and the two registered peers are in relay.
C15_Witness ==
    \E p, a \in Sessions :
        /\ Refused(p) /\ status[p] = StatusCreated /\ conn[p] = "connected"
        /\ sent[p] # << >> /\ task[p].st = "unhandled"
        /\ InSlot(a) /\ task[a].st = "running" /\ task[a].dst \notin {NoPeer, p}

\* ------------------------------------------------------ client properties
\* The granule position grows from each audio page (those after the two
\* header pages) to the next.
GranuleIncreasing(ogg) ==
    \A n \in 4 .. Len(ogg) : ogg[n].granule > ogg[n - 1].granule
IsHeaderPages(ogg) ==
    /\ Len(ogg) >= 2
    /\ ogg[1].data = opusHead /\ ogg[1].headerType = HeaderTypeBOS
    /\ ogg[2].data = opusTags

\* C18: encoding a batch of M frames with createOggOpusFile and decoding the
\* container with extractOpusPacketsFromOgg gives the M frames back, in
\* order and byte for byte, and the granule position of the audio pages
\* strictly increases.
C18_ContainerRoundTrip ==
    /\ stage \in {"container", "decoded"} =>
          IsHeaderPages(oggData) /\ GranuleIncreasing(oggData)
    /\ stage = "decoded" =>
          /\ ~decodeErr
          /\ Len(packets) = Len(batch)
          /\ packets = batch

\* C19: encoding zero frames gives exactly the identification header page
\* and the comment header page, and decoding that container gives zero
\* frames.
C19_EmptyBatch ==
    batch = << >> =>
        /\ stage \in {"container", "decoded"} =>
              IsHeaderPages(oggData) /\ Len(oggData) = 2
        /\ stage = "decoded" => ~decodeErr /\ packets = << >>

\* The packets of batch k (phrase k) that reached the track, in order.
BatchOnWire(k) == SelectSeq(wire, LAMBDA w : w.batch = k)

C17_SequenceAcrossBatches ==
    \A m, n \in 1 .. Len(wire) : m < n => wire[m].pkt.seq <= wire[n].pkt.seq

RECURSIVE Concat(_)
Concat(qs) == IF qs = << >> THEN << >> ELSE Head(qs) \o Concat(Tail(qs))

\* C20: the accumulator is given to the container encoder when the window
\* expires or when a packet with the marker arrives, whichever comes first,
\* and is empty afterwards: every packet received is in the accumulator or
\* in a batch given to the encoder, no batch goes on after a marker packet,
\* and once the last packet received has the marker the accumulator is empty
\* and the encoder has got the batch that ends with that packet.
C20_BatchClosedByWindowOrMarker ==
    /\ Concat(handed) \o opusPackets = heard
    /\ \A b \in 1 .. Len(handed) : \A n \in 1 .. Len(handed[b]) - 1 :
          ~handed[b][n].marker
    /\ (heard # << >> /\ heard[Len(heard)].marker) =>
          /\ opusPackets = << >>
          /\ handed # << >>
          /\ handed[Len(handed)][Len(handed[Len(handed)])] = heard[Len(heard)]

\* ------------------------------------------------------ speak job properties
\* The audios of the job in the order it goes through them.
InOrder(q) == \A n \in 1 .. Len(q) : q[n] = n
\* The closing phrase of a job of program c.
Closing(c) == LastAudio(c)
\* Audio k of the job reached the track.
OnWire(k) == \E n \in 1 .. Len(wire) : wire[n].batch = k

\* A step of the job sends for the phrase it is at, on the open session, and
\* attempts the phrase it is at; the job moves from a phrase to the next.
SentInTurn ==
    /\ wire' # wire => /\ speak = "loop" /\ peerConnection = "open"
                       /\ wire'[Len(wire')].batch = phrase
    /\ attempts' # attempts => /\ speak = "tts"
                               /\ attempts' = Append(attempts, phrase)
    /\ phrase' \in {phrase, phrase + 1}

\* C21: a speak job whose signaling succeeded calls textToSpeech for the
\* phrases in request order, once each and one at a time (the packets of two
\* phrases are never interleaved on the track); the closing phrase is
\* attempted and sent only after every phrase of the request was attempted;
\* the session is closed when the job returns, not before, and nothing is
\* sent afterwards; and the job always returns, whatever textToSpeech and
\* WriteRTP answer.
C21_SpeakJobInOrderThenClosed ==
    /\ [](client \in PhraseJobs =>
            /\ InOrder(attempts)
            /\ Len(attempts) = IF speak = "tts" THEN phrase - 1 ELSE phrase
            /\ \A m, n \in 1 .. Len(wire) : m < n => wire[m].batch <= wire[n].batch
            /\ \A n \in 1 .. Len(wire) : wire[n].batch <= Len(attempts)
            /\ speak = "loop" => attempts # << >> /\ attempts[Len(attempts)] = phrase
            /\ speak \in {"done", "returned"} => Len(attempts) = Closing(client)
            /\ peerConnection = "closed" <=> speak = "returned")
    /\ [][(client \in PhraseJobs) => SentInTurn]_vars
    /\ <>[](client \in PhraseJobs =>
              speak = "returned" /\ peerConnection = "closed")

\* A job has returned with its session closed: its first phrase and the
\* closing phrase reached the track, its second phrase failed.
C21_Witness ==
    /\ client \in PhraseJobs /\ speak = "returned" /\ peerConnection = "closed"
    /\ OnWire(1) /\ ~OnWire(2) /\ OnWire(Closing(client))
    /\ Len(attempts) = Closing(client)

\* ----------------------------------------------------------- mutex properties
\* The mutexes goroutine t holds.
HeldBy(t) == {h[2] : h \in {g \in held : g[1] = t}}
\* A handler is inside getOrCreateRoom.
InGetOrCreateRoom == \E q \in Sessions : pc[q] = "getroom.locked"
\* A goroutine is inside addPeer or removePeer of the Room at address i.
InRoomOperation(i) ==
    \E q \in Sessions :
        /\ room[q] = i
        /\ \/ pc[q] = "addpeer.locked"
           \/ \E state \in States : HeldBy(CallbackOf(q, state)) # {}
\* The callback of session p for `state` has not called removePeer yet.
Waiting(p, state) ==
    state \in pending[p] /\ removesOn(state) /\ HeldBy(CallbackOf(p, state)) = {}
\* Handler p is in a registry operation, waiting for the mutex or holding it.
InRegistry(p) == pc[p] \in {"getroom", "getroom.locked", "addpeer", "addpeer.locked"}

\* C22: rm.mutex and each Room's mutex are different mutexes, and no
\* goroutine holds two of them at once.  A handler at getOrCreateRoom's Lock
\* waits only while another handler is inside getOrCreateRoom, whatever
\* addPeer or removePeer is in progress; a goroutine at addPeer's or
\* removePeer's Lock waits only while a goroutine is inside addPeer or
\* removePeer of the same Room.  A step changes the slots of a Room only from
\* inside addPeer or removePeer of that Room.  No deadlock: a goroutine inside
\* an operation can always finish it, and every handler that entered the
\* registry leaves it, every callback runs to its end.
C22_DistinctLocksNoBlocking ==
    /\ [](/\ \A i, j \in RoomAddrs :
                /\ mutexOf(i) # ManagerMutex
                /\ i # j => mutexOf(i) # mutexOf(j)
          /\ \A g, h \in held : (g[1] = h[1] \/ g[2] = h[2]) => g = h
          /\ \A p \in Sessions :
                /\ (pc[p] = "getroom" /\ ~ENABLED LockManager(p)) => InGetOrCreateRoom
                /\ (pc[p] = "addpeer" /\ ~ENABLED LockRoomToAdd(p))
                      => InRoomOperation(room[p])
                /\ \A state \in States :
                      (Waiting(p, state) /\ ~ENABLED LockRoomToRemove(p, state))
                          => InRoomOperation(room[p])
                /\ pc[p] = "getroom.locked" => ENABLED GetOrCreateRoomLocked(p)
                /\ pc[p] = "addpeer.locked" => ENABLED AddPeerLocked(p)
                /\ \A state \in States : HeldBy(CallbackOf(p, state)) # {}
                      => ENABLED RemovePeerLocked(p, state))
    /\ [][\A i \in RoomAddrs : heap'[i] # heap[i] => InRoomOperation(i)]_vars
    /\ \A p \in Sessions :
          /\ InRegistry(p) ~> ~InRegistry(p)
          /\ \A state \in States : Waiting(p, state) ~> state \notin pending[p]

\* Three mutexes are held at once, by three goroutines: a handler is inside
\* getOrCreateRoom, another inside addPeer of one Room, and a callback inside
\* removePeer of the other Room.
C22_Witness ==
    \E p, q, c \in Sessions : \E state \in States :
        /\ pc[p] = "getroom.locked"
        /\ pc[q] = "addpeer.locked"
        /\ HeldBy(CallbackOf(c, state)) = {mutexOf(room[c])}
        /\ room[q] # room[c]
        /\ Cardinality(held) = 3

\* ------------------------------------------------------------ room properties
Empty(r) == r.PeerA = NoPeer /\ r.PeerB = NoPeer

\* C23: an identifier that maps to a Room maps to that Room in every later
\* state, and the Room keeps its identifier, whatever its slots hold; every
\* handler gets that Room from getOrCreateRoom; and addPeer on a Room both of
\* whose peers have left puts the peer in slot A and returns no partner.
C23_RoomNeverDeleted ==
    /\ [](\A p \in Sessions : room[p] # NoRoom =>
            room[p] = rooms[reqRoom[p]] /\ heap[room[p]].ID = reqRoom[p])
    /\ [][/\ \A id \in RoomIDs : rooms[id] # NoRoom => rooms'[id] = rooms[id]
          /\ \A i \in RoomAddrs : i \in DOMAIN heap' /\ heap'[i].ID = heap[i].ID
          /\ \A p \in Sessions :
                (AddPeerStep(p) /\ Empty(heap[room[p]])) =>
                    /\ heap'[room[p]] = [heap[room[p]] EXCEPT !.PeerA = p]
                    /\ otherPeer'[p] = NoPeer]_vars

\* The two peers of a room have left it, and the peer of a later request for
\* the same identifier holds slot A of the same Room, alone.
C23_Witness ==
    \E a, b, c \in Sessions :
        /\ slot[a] = "A" /\ slot[b] = "B" /\ Handled(a) /\ Handled(b)
        /\ room[a] = room[b] /\ room[b] = room[c] /\ c > a /\ c > b
        /\ rooms[reqRoom[c]] = room[a]
        /\ slot[c] = "A" /\ otherPeer[c] = NoPeer
        /\ heap[room[c]] = [ID |-> reqRoom[c], PeerA |-> c, PeerB |-> NoPeer]

\* Session p completed negotiation: the offer is its remote description, the
\* answer its local description and gathering is complete.
NegotiationComplete(p) == desc[p].remote /\ desc[p].local /\ gathered[p]

\* C24: within a request the offer is applied and the answer generated,
\* applied and fully gathered before the peer is registered and before any
\* relay wiring: a peer that addPeer was called for, that is in a slot or
\* that is the source or destination of an OnTrack handler has a session
\* that completed negotiation.
C24_NegotiatedBeforeRegistered ==
    \A p \in Sessions :
        ( \/ slot[p] # ""
          \/ InSlot(p)
          \/ onTrack[p] # NoPeer
          \/ \E q \in Sessions : onTrack[q] = p )
        => NegotiationComplete(p)

\* The room as a state: "Empty", "Waiting" (one occupant), "Paired" (two).
RoomState(r) ==
    IF Cardinality(Slots(r)) = 0 THEN "Empty"
    ELSE IF Cardinality(Slots(r)) = 1 THEN "Waiting" ELSE "Paired"

\* C25: an addPeer that brings a room from Waiting to Paired returns the
\* other occupant as partner (and the handler goes on to the relay wiring),
\* also when an earlier occupant has left and is being replaced; an addPeer
\* on any other transition returns no partner; and nothing but addPeer
\* brings a room to Paired.
C25_PairingOnWaitingToPaired ==
    [][/\ \A p \in Sessions : AddPeerStep(p) =>
            LET r == heap[room[p]]
                n == heap'[room[p]] IN
            IF RoomState(r) = "Waiting" /\ RoomState(n) = "Paired"
            THEN /\ otherPeer'[p] \in Slots(r)
                 /\ pc'[p] = "connect"
            ELSE /\ otherPeer'[p] = NoPeer
                 /\ pc'[p] = "answer"
       /\ \A i \in RoomAddrs :
            (RoomState(heap[i]) # "Paired" /\ RoomState(heap'[i]) = "Paired")
                => \E p \in Sessions : AddPeerStep(p) /\ room[p] = i]_vars

\* ------------------------------------------------------- container properties
\* The payloads of the pages after the two header pages, in file order.
LaterPayloads(ogg) == [n \in 1 .. Len(ogg) - 2 |-> ogg[n + 2].data]

\* C26: extractOpusPacketsFromOgg skips the identification page and the
\* comment page and returns the payload of each later page as one frame, in
\* file order; the payload of a header page is never among the frames.
C26_DecodeSkipsHeaderPages ==
    stage = "decoded" =>
        /\ ~decodeErr
        /\ packets = LaterPayloads(oggData)
        /\ \A n \in 1 .. Len(packets) : packets[n] \notin {opusHead, opusTags}

\* The pages of the container that have the end-of-stream flag.
EndOfStreamPages(ogg) == {n \in 1 .. Len(ogg) : ogg[n].headerType = HeaderTypeEOS}

\* C27: the container createOggOpusFile makes of a non-empty batch has the
\* end-of-stream flag on exactly one page, its last one, which is the page
\* of the batch's final frame, whatever that frame's length.
C27_EndOfStreamOnFinalFrame ==
    (batch # << >> /\ stage \in {"container", "decoded"}) =>
        /\ EndOfStreamPages(oggData) = {Len(oggData)}
        /\ Len(oggData) > 2
        /\ oggData[Len(oggData)].data = batch[Len(batch)]

\* ------------------------------------------------------ zero-length frames
\* C28: a zero-length frame is never forwarded: no packet that the relay
\* wrote to a destination's track, no packet that sendAudioToTrack wrote to
\* its track and no audio page of a container has an empty payload.
C28_NoEmptyPayloadForwarded ==
    /\ \A p \in Sessions : \A n \in 1 .. Len(sink[p]) : Len(sink[p][n].payload) > 0
    /\ \A n \in 1 .. Len(wire) : Len(wire[n].pkt.payload) > 0
    /\ \A n \in 3 .. Len(oggData) : Len(oggData[n].data) > 0

\* ------------------------------------------------------------ skipped frames
\* The frame fits a page of the encoder: not empty, at most 255 bytes.
Fits(frame) == Len(frame) > 0 /\ Len(frame) <= MaxSegment
\* The frames of the batch that fit, in arrival order.
Written(pkts) == SelectSeq(pkts, Fits)

\* C29: createOggOpusFile skips the frames that are empty or longer than 255
\* bytes and nothing else: the audio pages carry the other frames of the
\* batch, one each and in arrival order; the page sequence numbers are
\* consecutive from 0 (header pages 0 and 1, audio pages from 2 on); the
\* granule position is 0 on the header pages and grows by 960 with every
\* audio page; and the one segment-table entry is the frame's length.
C29_OffendingFrameSkippedOnly ==
    stage \in {"container", "decoded"} =>
        /\ IsHeaderPages(oggData)
        /\ LaterPayloads(oggData) = Written(batch)
        /\ \A n \in 1 .. Len(oggData) :
              /\ oggData[n].index = n - 1
              /\ oggData[n].granule = IF n <= 2 THEN 0 ELSE SamplesPerPacket * (n - 2)
              /\ oggData[n].segs = <<Len(oggData[n].data)>>

\* A batch of three frames whose second one is empty or too long: the
\* container holds the first and the third on pages 2 and 3, with granule
\* positions 960 and 1920.
C29_Witness ==
    /\ stage = "container" /\ Len(batch) = 3
    /\ ~Fits(batch[2]) /\ Fits(batch[1]) /\ Fits(batch[3]) /\ batch[1] # batch[3]
    /\ Len(oggData) = 4
    /\ oggData[3].data = batch[1] /\ oggData[4].data = batch[3]
    /\ oggData[4].index = 3 /\ oggData[4].granule = 2 * SamplesPerPacket

\* ------------------------------------------------------------- exited tasks
\* Session p's forwarding goroutine has returned: ReadRTP reported io.EOF or
\* another error, or WriteRTP failed.
Exited(p) == task[p].st \in {"eof", "readerr", "writeerr"}

\* C30: once the forwarding task of a session has exited, it stays exited:
\* no packet of that session is read or written to any sink any more, and no
\* task is started again for that session.  Packets are forwarded afterwards
\* only for other sessions, each created by its own signaling request.
C30_ExitedTaskNeverResumes ==
    [][\A p \in Sessions : Exited(p) =>
          /\ task'[p] = task[p]
          /\ rdIdx'[p] = rdIdx[p]
          /\ \A q \in Sessions : FromSrc(q, p)' = FromSrc(q, p)]_vars

\* The task of a session has exited on a read error while a packet of the
\* session waits unread and the session is still connected; a session of a
\* later request has a running task that has forwarded a packet.
C30_Witness ==
    \E p, n \in Sessions :
        /\ p < n
        /\ task[p].st = "readerr" /\ conn[p] = "connected"
        /\ rdIdx[p] < Len(sent[p])
        /\ task[n].st = "running" /\ WrittenBy(n) # << >>

\* ------------------------------------------------------- forwarded packets
\* C31: every packet in a destination sink has the extension flag cleared
\* and no header extension, and is, in sequence number, timestamp, marker and
\* payload bytes, a packet its source's forwarding task read, which had
\* extensions.
C31_ExtensionsStripped ==
    \A q \in Sessions : \A n \in 1 .. Len(sink[q]) :
        LET w == sink[q][n] IN
        /\ ~w.ext
        /\ w.extensions = << >>
        /\ \E k \in 1 .. rdIdx[w.src] :
              /\ SamePacket(w, sent[w.src][k])
              /\ sent[w.src][k].ext /\ sent[w.src][k].extensions # << >>

\* In the build of part_001 a sink holds a packet with a payload that came
\* in with a header extension and went out without.
C31_Witness ==
    \E p, q \in Sessions :
        /\ build = "part_001" /\ task[p].dst = q /\ rdIdx[p] >= 1
        /\ sent[p][1].ext /\ sent[p][1].extensions = Extensions
        /\ FromSrc(q, p) # << >>
        /\ FromSrc(q, p)[1].payload = sent[p][1].payload
        /\ ~FromSrc(q, p)[1].ext /\ sent[p][1].payload # << >>

\* --------------------------------------------------------------- isolation
\* This step is the return of session p's forwarding goroutine.
ExitStep(p) == task[p].st = "running" /\ Exited(p)'

\* C32: the return of a forwarding goroutine changes nothing but that
\* task's state: every other task, of the same pair or of another room, is as
\* it was, as are the sinks, the sessions, the registry and the requests; a
\* running task with a packet to read can always go on; and no request is
\* answered with an error.
C32_TasksIsolated ==
    /\ [](/\ \A q \in Sessions : status[q] \in {0, StatusCreated}
          /\ \A q \in Sessions :
                (Forwarding(q) /\ rdIdx[q] < Len(sent[q])) => ENABLED Forward(q))
    /\ [][\A p \in Sessions : ExitStep(p) =>
            /\ \A q \in Sessions \ {p} : task'[q] = task[q] /\ rdIdx'[q] = rdIdx[q]
            /\ UNCHANGED <<regVars, reqVars, sessVars, sent, sink>>]_vars

\* One direction's task has exited; the opposite direction's task is running
\* and has forwarded a packet; and two later requests were answered 201 and
\* paired in the other room.
C32_Witness ==
    \E p, q, r, n \in Sessions :
        /\ Exited(p) /\ task[p].dst = q
        /\ task[q].st = "running" /\ task[q].dst = p /\ WrittenBy(q) # << >>
        /\ p < r /\ q < r /\ r < n
        /\ room[r] = room[n] /\ room[r] # room[p]
        /\ status[r] = StatusCreated /\ status[n] = StatusCreated
        /\ onTrack[r] = n /\ onTrack[n] = r

\* ------------------------------------------------------------------ draining
\* The goroutine of session p's end e starts in this step.
DrainStarts(p, e) == drain[p][e].st = "none" /\ drain'[p][e].st = "running"

\* C33: the RTCP-reading goroutine on a session's sender starts in the step
\* that attaches the AudioTrack, and the one on its receiver in the step that
\* starts the forwarding goroutine, and in no other; a started one can read and
\* discard again while the session is connected, and leaves its loop only by a
\* failed read, for good; and a forwarding goroutine with a packet to read can
\* take its turn whatever the RTCP-reading goroutines have done.
C33_DrainsSeparate ==
    /\ [](\A p \in Sessions :
            /\ \A e \in Ends :
                (drain[p][e].st = "running" /\ conn[p] = "connected"
                    /\ TotalDiscarded < MaxRtcp) => ENABLED ReadRTCP(p, e)
            /\ (Forwarding(p) /\ rdIdx[p] < Len(sent[p])) => ENABLED Forward(p))
    /\ [][\A p \in Sessions :
            /\ DrainStarts(p, "sender") <=> (pc[p] = "idle" /\ pc'[p] = Constructed.pc)
            /\ DrainStarts(p, "receiver") <=>
                    (task[p].st = "none" /\ task'[p].st = "running")
            /\ \A e \in Ends :
                /\ drain[p][e].st = "returned" => drain'[p][e] = drain[p][e]
                /\ drain[p][e].st = "running" =>
                    \/ drain'[p][e] = drain[p][e]
                    \/ drain'[p][e] = [drain[p][e] EXCEPT !.n = @ + 1]
                    \/ /\ drain'[p][e] = [drain[p][e] EXCEPT !.st = "returned"]
                       /\ UNCHANGED relayVars]_vars

\* The goroutine on a session's receiver returned without having read
\* anything, the forwarding goroutine of that session has forwarded a packet,
\* and the goroutine on its sender has read and discarded twice.
C33_Witness ==
    \E p \in Sessions :
        /\ drain[p].receiver = [st |-> "returned", n |-> 0]
        /\ task[p].st = "running" /\ WrittenBy(p) # << >>
        /\ drain[p].sender = [st |-> "running", n |-> 2]

\* ------------------------------------------------------- a phrase that fails
\* This step is a failure of the phrase the job is at: textToSpeech or the
\* decoding of its audio returned an error, or WriteRTP did.
PhraseFails ==
    \/ speak = "tts" /\ speak' # "loop"
    \/ speak = "loop" /\ loopI < Len(fragments) /\ speak' # "loop"

\* C34: when textToSpeech or sendAudioToTrack fails for a phrase, the job
\* sends nothing more of that phrase and goes to the next one, or from the
\* last phrase of the request to the closing phrase, or from the closing
\* phrase to its end; no phrase is attempted twice; and whatever fails, every
\* phrase and the closing phrase end up attempted, in order.
C34_FailedPhraseSkippedOnly ==
    /\ [](client \in PhraseJobs =>
            \A m, n \in 1 .. Len(attempts) : m # n => attempts[m] # attempts[n])
    /\ [][(client \in PhraseJobs /\ PhraseFails) =>
            /\ wire' = wire
            /\ IF phrase = Closing(client)
               THEN speak' = "done"
               ELSE speak' = "tts" /\ phrase' = phrase + 1]_vars
    /\ [][(client \in PhraseJobs) =>
            /\ phrase' >= phrase
            /\ \A n \in 1 .. Len(wire') : n > Len(wire) => wire'[n].batch = phrase']_vars
    /\ <>[](client \in PhraseJobs =>
              attempts = [n \in 1 .. Closing(client) |-> n])

\* A job has returned: nothing of its first phrase reached the track, and
\* its second phrase and the closing phrase did.
C34_Witness ==
    /\ client \in PhraseJobs
    /\ speak = "returned"
    /\ attempts = [n \in 1 .. Closing(client) |-> n]
    /\ ~OnWire(1) /\ OnWire(2) /\ OnWire(Closing(client))

\* -------------------------------------------------- the listener's batches
\* The programs whose listener has the ticker goroutine.
Tickers == Clients \ {"part_003"}

\* C35: in the listeners with a ticker, whatever the order of reads and
\* ticks, the batches given to createOggOpusFile followed by the accumulator
\* are exactly the packets received, in the order received (so no packet is
\* missing, none is in two batches, and batches and the packets in them are
\* in arrival order); a batch is given only when the accumulator is not
\* empty, is the accumulator, and empties it, so no batch is empty; and every
\* packet received ends up in a batch.
C35_EachFrameInOneBatch ==
    /\ [](client \in Tickers =>
            /\ Concat(handed) \o opusPackets = heard
            /\ \A b \in 1 .. Len(handed) : handed[b] # << >>)
    /\ [][(client \in Tickers /\ handed' # handed) =>
            /\ opusPackets # << >>
            /\ handed' = Append(handed, opusPackets)
            /\ opusPackets' = << >>
            /\ heard' = heard]_vars
    /\ [][(client \in Tickers /\ opusPackets = << >>) => handed' = handed]_vars
    /\ <>[](client \in Tickers => Concat(handed) = heard /\ opusPackets = << >>)

\* The reading goroutine has ended after three packets, which went to the
\* encoder in two batches, the accumulator being empty.
C35_Witness ==
    /\ client \in Tickers
    /\ listen = "ended"
    /\ Len(heard) = 3 /\ Len(handed) = 2
    /\ Concat(handed) = heard /\ opusPackets = << >>

\* ------------------------------------------------------ a replaced partner
\* The peer in the other slot of the room session p is registered in
\* (NoPeer: p is in no slot, or the other slot is empty).
Partner(p) ==
    IF room[p] = NoRoom THEN NoPeer
    ELSE LET r == heap[room[p]] IN
         IF r.PeerA = p THEN r.PeerB
         ELSE IF r.PeerB = p THEN r.PeerA
         ELSE NoPeer

\* C36: when the forwarding goroutine of a peer writes a packet while the
\* other slot of the peer's room is occupied, the packet goes to the
\* AudioTrack of the peer in that slot.
C36_WrittenToCurrentPartner ==
    [][\A p, d \in Sessions :
        (/\ Len(sink'[d]) = Len(sink[d]) + 1
         /\ sink'[d][Len(sink'[d])].src = p
         /\ Partner(p) # NoPeer) => d = Partner(p)]_vars

\* --------------------------------------------------- one slot for each peer
\* The slots peer p is in: pairs of a room's address and a slot's name.
SlotsOf(p) ==
    {<<k, "A">> : k \in {n \in 1 .. Len(heap) : heap[n].PeerA = p}}
        \cup {<<k, "B">> : k \in {n \in 1 .. Len(heap) : heap[n].PeerB = p}}

\* C37: a peer is in one slot at most, of all the slots of all the rooms; a
\* peer enters a slot only in the addPeer call of its own handler, which is
\* made once (its outcome, once known, never changes); so a peer that has
\* left its slot is in no slot ever after.
C37_OneSlotOncePerPeer ==
    /\ [](\A p \in Sessions : Cardinality(SlotsOf(p)) <= 1)
    /\ [][\A p \in Sessions :
            /\ (SlotsOf(p) = {} /\ SlotsOf(p)' # {}) => pc[p] = "addpeer" /\ slot[p] = ""
            /\ slot[p] # "" => slot'[p] = slot[p]
            /\ (slot[p] # "" /\ SlotsOf(p) = {}) => SlotsOf(p)' = {}]_vars

\* A peer registered in slot A has been removed and another peer has taken
\* that slot, while a third peer is registered in another room.
C37_Witness ==
    \E p, q, o \in Sessions :
        /\ slot[p] = "A" /\ SlotsOf(p) = {}
        /\ q # p /\ SlotsOf(q) = {<<room[p], "A">>}
        /\ Cardinality(SlotsOf(o)) = 1 /\ room[o] # room[p]

\* ------------------------------------------------------------ ICE failure
\* C38: once the ICE transport of a negotiated session has failed, the
\* session gets closed and its peer ends up out of its slot for good, its
\* callbacks all delivered; and a step in which a peer leaves its slot leaves
\* every other peer in the slot it was in.
C38_IceFailureClosesAndClears ==
    /\ \A p \in Sessions :
          ("icefailed" \in pending[p]) ~> [](conn[p] = "closed")
    /\ \A p \in Sessions :
          ("icefailed" \in pending[p]) ~> [](SlotsOf(p) = {} /\ pending[p] = {})
    /\ [][\A p \in Sessions :
            (SlotsOf(p) # {} /\ SlotsOf(p)' = {}) =>
                \A q \in Sessions \ {p} : SlotsOf(q)' = SlotsOf(q)]_vars

\* A paired peer's ICE transport failed: its session is closed, its
\* callbacks were delivered, its slot is empty and its partner is still in
\* the other slot.
C38_Witness ==
    \E p, q \in Sessions :
        /\ slot[p] = "A" /\ otherPeer[q] = p
        /\ conn[p] = "closed" /\ pending[p] = {}
        /\ heap[room[p]].PeerA = NoPeer
        /\ heap[room[p]].PeerB = q

====
